---------------------------- MODULE Spec2Model ----------------------------
(***************************************************************************)
(* A model of the generalized Sudoku engine of rust_puzzle: the grid       *)
(* (lib.rs), the constraint protocol (constraint/), the backtracking       *)
(* solver (solver/mod.rs) and the generator's fill and reduce              *)
(* (sudoku_generator.rs).                                                  *)
(*                                                                         *)
(* Conventions.  An Option<usize> cell is an integer: None is -1 and       *)
(* Some(n) is n.  A Vec is a sequence, so the Rust index i is the TLA+     *)
(* index i + 1.  A Result is a record with a tag ("Ok", an error name, or  *)
(* "Panic" for an unwrap or a slice index that aborts).  A string is a     *)
(* sequence of one-character strings.                                      *)
(***************************************************************************)
EXTENDS Integers, Sequences, FiniteSets, TLC

(***************************************************************************)
(* Bounds of the model.                                                    *)
(***************************************************************************)
\* Largest grid size (block_width * block_height) whose grids are explored.
MaxSize == 2
\* Raw cell values offered to deserialization range over 0 .. size + MaxExcess.
MaxExcess == 1

\* Option::None of a cell (lib.rs: cells: Vec<Option<usize>>).
None == -1

\* The block dimensions explored: every (block_width, block_height) with
\* 1 <= block_width * block_height <= MaxSize.
Dims == {d \in (1..MaxSize) \X (1..MaxSize) : d[1] * d[2] <= MaxSize}

\* Block dimensions offered to constructors, the invalid zero included.
RawDims == {d \in (0..MaxSize) \X (0..MaxSize) : d[1] * d[2] <= MaxSize}

(***************************************************************************)
(* SudokuGrid (lib.rs)                                                     *)
(***************************************************************************)

\* struct SudokuGrid { block_width, block_height, size, cells }
SudokuGrid(block_width, block_height, cells) ==
    [block_width |-> block_width, block_height |-> block_height,
     size |-> block_width * block_height, cells |-> cells]

\* The grid held where a constructor failed: no grid.
NoGrid == SudokuGrid(0, 0, <<>>)

\* index: Ok(row * size + column) if column < size || row < size.
index(column, row, size) ==
    IF column < size \/ row < size
    THEN [tag |-> "Ok", val |-> row * size + column]
    ELSE [tag |-> "OutOfBounds", val |-> 0]

\* SudokuGrid::new
new(block_width, block_height) ==
    IF block_width = 0 \/ block_height = 0
    THEN [tag |-> "InvalidDimensions", grid |-> NoGrid]
    ELSE [tag |-> "Ok",
          grid |-> SudokuGrid(block_width, block_height,
                     [i \in 1..((block_width * block_height) * (block_width * block_height)) |-> None])]

\* SudokuGrid::get_cell: self.cells[index] aborts when index >= cells.len().
get_cell(g, column, row) ==
    LET i == index(column, row, g.size) IN
    IF i.tag # "Ok" THEN [tag |-> i.tag, val |-> None]
    ELSE IF i.val >= Len(g.cells) THEN [tag |-> "Panic", val |-> None]
    ELSE [tag |-> "Ok", val |-> g.cells[i.val + 1]]

\* SudokuGrid::set_cell
set_cell(g, column, row, number) ==
    LET i == index(column, row, g.size) IN
    IF i.tag # "Ok" THEN [tag |-> i.tag, grid |-> g]
    ELSE IF number = 0 \/ number > g.size THEN [tag |-> "InvalidNumber", grid |-> g]
    ELSE IF i.val >= Len(g.cells) THEN [tag |-> "Panic", grid |-> g]
    ELSE [tag |-> "Ok", grid |-> [g EXCEPT !.cells[i.val + 1] = number]]

\* SudokuGrid::clear_cell
clear_cell(g, column, row) ==
    LET i == index(column, row, g.size) IN
    IF i.tag # "Ok" THEN [tag |-> i.tag, grid |-> g]
    ELSE IF i.val >= Len(g.cells) THEN [tag |-> "Panic", grid |-> g]
    ELSE [tag |-> "Ok", grid |-> [g EXCEPT !.cells[i.val + 1] = None]]

\* SudokuGrid::verify_dimensions
verify_dimensions(g, other) ==
    IF g.block_width # other.block_width \/ g.block_height # other.block_height
    THEN "InvalidDimensions" ELSE "Ok"

\* SudokuGrid::assign
assign(g, other) ==
    IF verify_dimensions(g, other) # "Ok"
    THEN [tag |-> "InvalidDimensions", grid |-> g]
    ELSE [tag |-> "Ok", grid |-> [g EXCEPT !.cells = other.cells]]

\* build_sudoku_grid: the constructor path of deserialization.
build_sudoku_grid(block_width, block_height, cells) ==
    LET r == new(block_width, block_height) IN
    IF r.tag # "Ok" THEN [tag |-> "Custom", grid |-> NoGrid]
    ELSE IF Len(cells) # r.grid.size * r.grid.size THEN [tag |-> "Custom", grid |-> NoGrid]
    ELSE [tag |-> "Ok", grid |-> [r.grid EXCEPT !.cells = cells]]

\* SudokuGrid::is_full
is_full(g) == ~ \E i \in 1..Len(g.cells) : g.cells[i] = None

\* SudokuGrid::is_empty
is_empty(g) == \A i \in 1..Len(g.cells) : g.cells[i] = None

\* SudokuGrid::count_clues
count_clues(g) ==
    Cardinality({i \in 1..Len(g.cells) : g.cells[i] # None})

\* is_subset that lets a digit pass where the other grid has none.
is_subset_lenient(g, other) ==
    IF verify_dimensions(g, other) # "Ok"
    THEN [tag |-> "InvalidDimensions", val |-> FALSE]
    ELSE [tag |-> "Ok",
          val |-> \A i \in 1..Len(g.cells) :
                     (g.cells[i] # None /\ other.cells[i] # None)
                        => other.cells[i] = g.cells[i]]

\* SudokuGrid::is_subset
is_subset(g, other) ==
    IF verify_dimensions(g, other) # "Ok"
    THEN [tag |-> "InvalidDimensions", val |-> FALSE]
    ELSE [tag |-> "Ok",
          val |-> \A i \in 1..Len(g.cells) :
                     g.cells[i] # None => other.cells[i] = g.cells[i]]

\* SudokuGrid::is_superset
is_superset(g, other) == is_subset(other, g)


\* Every well-formed grid of the given block dimensions.
GridsOf(d) ==
    {SudokuGrid(d[1], d[2], c) :
        c \in [1..((d[1] * d[2]) * (d[1] * d[2])) -> {None} \cup (1..(d[1] * d[2]))]}

\* Every well-formed grid of the explored dimensions.
Grids == UNION {GridsOf(d) : d \in Dims}

(***************************************************************************)
(* The textual encoding (lib.rs: to_string, to_parseable_string,           *)
(* parse_dimensions, SudokuGrid::parse)                                    *)
(***************************************************************************)

\* The decimal digits, in order: Digits[v + 1] is the character of value v.
Digits == <<"0", "1", "2", "3", "4", "5", "6", "7", "8", "9">>

\* char::to_digit(10) of a decimal digit character.
DigitVal(c) == (CHOOSE i \in 1..10 : Digits[i] = c) - 1

\* char::is_ascii_digit
IsDigit(c) == \E i \in 1..10 : Digits[i] = c

\* usize's Display (number.to_string()): the decimal digits, no sign, no padding.
RECURSIVE usize_to_string(_)
usize_to_string(n) ==
    IF n < 10 THEN <<Digits[n + 1]>>
    ELSE usize_to_string(n \div 10) \o <<Digits[(n % 10) + 1]>>

\* str::parse::<usize> on digits only: the value of a digit string.
RECURSIVE digits_value(_)
digits_value(s) ==
    IF s = <<>> THEN 0
    ELSE 10 * digits_value(SubSeq(s, 1, Len(s) - 1)) + DigitVal(s[Len(s)])

\* str::parse::<usize>: an optional '+', then one or more decimal digits;
\* anything else is a ParseIntError.
parse_usize(s) ==
    LET body == IF s # <<>> /\ s[1] = "+" THEN Tail(s) ELSE s IN
    IF body = <<>> \/ \E i \in 1..Len(body) : ~IsDigit(body[i])
    THEN [tag |-> "ParseIntError", val |-> 0]
    ELSE [tag |-> "Ok", val |-> digits_value(body)]

\* str::split(ch): the pieces between the occurrences of ch (n occurrences
\* give n + 1 pieces, empty ones kept).
RECURSIVE split(_, _)
split(s, ch) ==
    IF \A i \in 1..Len(s) : s[i] # ch THEN <<s>>
    ELSE LET k == CHOOSE i \in 1..Len(s) :
                      s[i] = ch /\ \A j \in 1..(i - 1) : s[j] # ch
         IN <<SubSeq(s, 1, k - 1)>> \o split(SubSeq(s, k + 1, Len(s)), ch)

\* str::trim: leading and trailing white space removed.
RECURSIVE trim(_)
trim(s) ==
    IF s = <<>> THEN s
    ELSE IF s[1] = " " THEN trim(Tail(s))
    ELSE IF s[Len(s)] = " " THEN trim(SubSeq(s, 1, Len(s) - 1))
    ELSE s

\* Vec<String>::join(sep)
RECURSIVE join(_, _)
join(strs, sep) ==
    IF strs = <<>> THEN <<>>
    ELSE IF Len(strs) = 1 THEN strs[1]
    ELSE strs[1] \o sep \o join(Tail(strs), sep)

\* fn to_string(cell: &Option<usize>)
to_string(cell) == IF cell # None THEN usize_to_string(cell) ELSE <<>>

\* The encoding the test to_parseable_string expects of a grid:
\* "<block_width>x<block_height>;" and the cells joined with ','.
expected_parseable_string(g) ==
    usize_to_string(g.block_width) \o <<"x">> \o usize_to_string(g.block_height)
        \o <<";">>
        \o join([i \in 1..Len(g.cells) |-> to_string(g.cells[i])], <<",">>)

\* SudokuGrid::to_parseable_string: format!("{}x{}", block_width, block_height)
\* followed by the cells joined with ','.
to_parseable_string(g) ==
    usize_to_string(g.block_width) \o <<"x">> \o usize_to_string(g.block_height)
        \o join([i \in 1..Len(g.cells) |-> to_string(g.cells[i])], <<",">>)

\* fn parse_dimensions
parse_dimensions(code) ==
    LET parts == split(code, "x") IN
    IF Len(parts) # 2 THEN [tag |-> "MalformedDimensions", w |-> 0, h |-> 0]
    ELSE LET w == parse_usize(parts[1])
             h == parse_usize(parts[2])
         IN IF w.tag # "Ok" \/ h.tag # "Ok"
            THEN [tag |-> "NumberFormatError", w |-> 0, h |-> 0]
            ELSE [tag |-> "Ok", w |-> w.val, h |-> h.val]

\* The loop of SudokuGrid::parse over the cell entries from entry i on: the
\* first entry that is no number or a number out of range ends it.
RECURSIVE parse_cells(_, _, _)
parse_cells(grid, numbers, i) ==
    IF i > Len(numbers) THEN [tag |-> "Ok", grid |-> grid]
    ELSE LET number_str == trim(numbers[i]) IN
         IF number_str = <<>> THEN parse_cells(grid, numbers, i + 1)
         ELSE LET number == parse_usize(number_str) IN
              IF number.tag # "Ok" THEN [tag |-> "NumberFormatError", grid |-> NoGrid]
              ELSE IF number.val = 0 \/ number.val > grid.size
                   THEN [tag |-> "InvalidNumber", grid |-> NoGrid]
                   ELSE parse_cells([grid EXCEPT !.cells[i] = number.val], numbers, i + 1)

\* parse with the cell count tested before the dimensions are validated (the
\* source validates the dimensions first).
parse_count_first(code) ==
    LET parts == split(code, ";") IN
    IF Len(parts) # 2 THEN [tag |-> "WrongNumberOfParts", grid |-> NoGrid]
    ELSE LET dims == parse_dimensions(parts[1])
             numbers == split(parts[2], ",")
         IN IF dims.tag # "Ok" THEN [tag |-> dims.tag, grid |-> NoGrid]
            ELSE IF Len(numbers) # (dims.w * dims.h) * (dims.w * dims.h)
                 THEN [tag |-> "WrongNumberOfCells", grid |-> NoGrid]
            ELSE IF new(dims.w, dims.h).tag # "Ok"
                 THEN [tag |-> "InvalidDimensions", grid |-> NoGrid]
            ELSE parse_cells(new(dims.w, dims.h).grid, numbers, 1)

\* SudokuGrid::parse.  The source's test of the number of parts reads
\* "parts.len() != {"; the number compared with is 2, as the tests
\* parse_ok and parse_wrong_number_of_parts fix it.
parse(code) ==
    LET parts == split(code, ";") IN
    IF Len(parts) # 2 THEN [tag |-> "WrongNumberOfParts", grid |-> NoGrid]
    ELSE LET dims == parse_dimensions(parts[1]) IN
         IF dims.tag # "Ok" THEN [tag |-> dims.tag, grid |-> NoGrid]
         ELSE LET g == new(dims.w, dims.h) IN
              IF g.tag # "Ok" THEN [tag |-> "InvalidDimensions", grid |-> NoGrid]
              ELSE LET numbers == split(parts[2], ",") IN
                   IF Len(numbers) # g.grid.size * g.grid.size
                   THEN [tag |-> "WrongNumberOfCells", grid |-> NoGrid]
                   ELSE parse_cells(g.grid, numbers, 1)

(***************************************************************************)
(* Constraints (constraint/mod.rs, composite.rs, irreducible.rs)           *)
(*                                                                         *)
(* A constraint is a tree: an elementary rule [kind |-> ..] or             *)
(* [kind |-> "Composite", c1 |-> .., c2 |-> ..].  The elementary rules     *)
(* (DefaultConstraint, DiagonalsConstraint, KillerConstraint) and the      *)
(* Constraint impl of CompositeConstraint are not among the source files:  *)
(* they are modelled from the specification.  A killer cage is a set of    *)
(* cells <<column, row>> with the sum its digits must have; the cages of a *)
(* KillerConstraint are a Vec, and a reduction of it is the index of the   *)
(* cage to remove.                                                         *)
(***************************************************************************)
DefaultConstraint == [kind |-> "Default"]

DiagonalsConstraint == [kind |-> "Diagonals"]

\* CompositeConstraint::new
CompositeConstraint(c1, c2) == [kind |-> "Composite", c1 |-> c1, c2 |-> c2]

\* The cells of the groups of the row/column/box rule that hold (column, row).
DefaultPeers(g, column, row) ==
    {p \in (0..(g.size - 1)) \X (0..(g.size - 1)) :
        /\ p # <<column, row>>
        /\ \/ p[1] = column
           \/ p[2] = row
           \/ /\ p[1] \div g.block_width = column \div g.block_width
              /\ p[2] \div g.block_height = row \div g.block_height}

\* The cells of the diagonals through (column, row).
DiagonalPeers(g, column, row) ==
    {p \in (0..(g.size - 1)) \X (0..(g.size - 1)) :
        /\ p # <<column, row>>
        /\ \/ p[1] = p[2] /\ column = row
           \/ p[1] + p[2] = g.size - 1 /\ column + row = g.size - 1}

\* KillerConstraint with the cages
KillerConstraint(cages) == [kind |-> "Killer", cages |-> cages]

\* A cage
Cage(cells, sum) == [cells |-> cells, sum |-> sum]

\* The sum of the digits the grid holds in the cells.
RECURSIVE SumOf(_, _)
SumOf(g, cells) ==
    IF cells = {} THEN 0
    ELSE LET p == CHOOSE q \in cells : TRUE IN
         get_cell(g, p[1], p[2]).val + SumOf(g, cells \ {p})

\* The number at (column, row) fits the cage: no other cell of the cage
\* holds it, and the digits of the cage stay below its sum until the cage is
\* full and then make it.
CageAdmits(cage, g, column, row, number) ==
    LET others == cage.cells \ {<<column, row>>}
        filled == {p \in others : get_cell(g, p[1], p[2]).val # None}
        total == number + SumOf(g, filled)
    IN /\ \A p \in filled : get_cell(g, p[1], p[2]).val # number
       /\ IF filled = others THEN total = cage.sum ELSE total < cage.sum

\* Constraint::check_number: would the number at (column, row) break the
\* rule, given the other cells of the grid.
RECURSIVE check_number(_, _, _, _, _)
check_number(c, g, column, row, number) ==
    IF c.kind = "Composite"
    THEN check_number(c.c1, g, column, row, number)
            /\ check_number(c.c2, g, column, row, number)
    ELSE IF c.kind = "Killer"
    THEN \A k \in 1..Len(c.cages) :
            <<column, row>> \in c.cages[k].cells
                => CageAdmits(c.cages[k], g, column, row, number)
    ELSE LET peers == IF c.kind = "Default" THEN DefaultPeers(g, column, row)
                      ELSE DiagonalPeers(g, column, row)
         IN \A p \in peers : get_cell(g, p[1], p[2]).val # number

\* default_check_cell (Constraint::check_cell)
check_cell(c, g, column, row) ==
    LET cell == get_cell(g, column, row).val IN
    IF cell # None THEN check_number(c, g, column, row, cell) ELSE TRUE

\* default_check (Constraint::check)
check(c, g) ==
    \A row \in 0..(g.size - 1) : \A column \in 0..(g.size - 1) :
        check_cell(c, g, column, row)

\* ReductionError::InvalidReduction, with the constraint as it was
InvalidReduction(c) == [tag |-> "InvalidReduction", constraint |-> c, info |-> <<>>]

\* The tokens tagged as reductions of one child of a composite.
Tagged(side, tokens) == [k \in 1..Len(tokens) |-> [side |-> side, r |-> tokens[k]]]

\* The token of an irreducible rule: type Reduction = ().
Unit == <<>>

\* list_reductions of an irreducible rule with the unit token in the list.
irreducible_list_reductions_unit(solution) == <<Unit>>

\* impl<C: IrreducibleConstraint> Constraint for C: list_reductions returns
\* Vec::new().
irreducible_list_reductions(solution) == <<>>

\* impl<C: IrreducibleConstraint> Constraint for C: reduce returns
\* Err(ReductionError::InvalidReduction) and does not touch self.
irreducible_reduce(c, solution, r) == InvalidReduction(c)

\* Constraint::list_reductions: no reduction of an irreducible rule, the
\* indices of the cages of a killer rule, and the tagged reductions of both
\* children of a composite.
RECURSIVE list_reductions(_, _)
list_reductions(c, solution) ==
    IF c.kind = "Composite"
    THEN Tagged("First", list_reductions(c.c1, solution))
            \o Tagged("Second", list_reductions(c.c2, solution))
    ELSE IF c.kind = "Killer" THEN [k \in 1..Len(c.cages) |-> k - 1]
    ELSE irreducible_list_reductions(solution)

\* Constraint::reduce: [tag, constraint, info], where constraint is the
\* constraint afterwards and info the RevertInfo.  An irreducible rule fails
\* any call; a killer rule removes the cage at the index, which is its
\* RevertInfo, and fails on an index past its cages; a composite dispatches
\* to the tagged child.
RECURSIVE reduce(_, _, _)
reduce(c, solution, r) ==
    IF c.kind = "Composite"
    THEN IF r.side = "First"
         THEN LET res == reduce(c.c1, solution, r.r) IN
              [tag |-> res.tag, constraint |-> [c EXCEPT !.c1 = res.constraint],
               info |-> res.info]
         ELSE LET res == reduce(c.c2, solution, r.r) IN
              [tag |-> res.tag, constraint |-> [c EXCEPT !.c2 = res.constraint],
               info |-> res.info]
    ELSE IF c.kind = "Killer"
    THEN IF r >= Len(c.cages) THEN InvalidReduction(c)
         ELSE [tag |-> "Ok",
               constraint |-> KillerConstraint(
                   SubSeq(c.cages, 1, r) \o SubSeq(c.cages, r + 2, Len(c.cages))),
               info |-> <<c.cages[r + 1]>>]
    ELSE irreducible_reduce(c, solution, r)

\* Constraint::revert: the constraint afterwards.  A killer rule puts the
\* cage of the RevertInfo back at the index.
RECURSIVE revert(_, _, _, _)
revert(c, solution, r, info) ==
    IF c.kind = "Composite"
    THEN IF r.side = "First"
         THEN [c EXCEPT !.c1 = revert(c.c1, solution, r.r, info)]
         ELSE [c EXCEPT !.c2 = revert(c.c2, solution, r.r, info)]
    ELSE IF c.kind = "Killer"
    THEN KillerConstraint(SubSeq(c.cages, 1, r) \o info
                            \o SubSeq(c.cages, r + 1, Len(c.cages)))
    ELSE c

(***************************************************************************)
(* Sudoku (lib.rs)                                                         *)
(***************************************************************************)
\* Sudoku::new_with_grid
Sudoku(g, c) == [grid |-> g, constraint |-> c]

\* Sudoku::is_valid
is_valid(sudoku) == check(sudoku.constraint, sudoku.grid)

\* Sudoku::is_valid_number
is_valid_number(sudoku, column, row, number) ==
    LET size == sudoku.grid.size IN
    IF column >= size \/ row >= size THEN [tag |-> "OutOfBounds", val |-> FALSE]
    ELSE IF number = 0 \/ number > size THEN [tag |-> "InvalidNumber", val |-> FALSE]
    ELSE [tag |-> "Ok",
          val |-> check_number(sudoku.constraint, sudoku.grid, column, row, number)]

\* is_valid_solution without the check of the constraint.
is_valid_solution_unchecked(sudoku, solution) ==
    LET sub == is_subset(sudoku.grid, solution) IN
    IF sub.tag # "Ok" THEN [tag |-> sub.tag, val |-> FALSE]
    ELSE [tag |-> "Ok", val |-> sub.val /\ is_full(solution)]

\* Sudoku::is_valid_solution
is_valid_solution(sudoku, solution) ==
    LET sub == is_subset(sudoku.grid, solution) IN
    IF sub.tag # "Ok" THEN [tag |-> sub.tag, val |-> FALSE]
    ELSE [tag |-> "Ok",
          val |-> sub.val /\ check(sudoku.constraint, solution) /\ is_full(solution)]

(***************************************************************************)
(* Solution and BacktrackingSolver (solver/mod.rs)                         *)
(***************************************************************************)
\* enum Solution { Impossible, Unique(SudokuGrid), Ambiguous }
Impossible == [tag |-> "Impossible", grid |-> NoGrid]

Unique(g) == [tag |-> "Unique", grid |-> g]

Ambiguous == [tag |-> "Ambiguous", grid |-> NoGrid]

\* What a solve cut short by a failed unwrap leaves: no Solution.
Panicked == [tag |-> "Panic", grid |-> NoGrid]

\* union that keeps the first grid when two different grids meet.
union_keep_first(self, other) ==
    IF self.tag = "Impossible" THEN other
    ELSE IF self.tag = "Unique" THEN
        IF other.tag = "Ambiguous" THEN Ambiguous ELSE Unique(self.grid)
    ELSE Ambiguous

\* Solution::union
union(self, other) ==
    IF self.tag = "Impossible" THEN other
    ELSE IF self.tag = "Unique" THEN
        IF other.tag = "Impossible" THEN Unique(self.grid)
        ELSE IF other.tag = "Unique" THEN
            IF self.grid = other.grid THEN Unique(self.grid) ELSE Ambiguous
        ELSE Ambiguous
    ELSE Ambiguous

\* The next column without the wrap to the first one.
next_column_no_wrap(column, size) == column + 1

\* let next_column = (column + 1) % size
next_column(column, size) == (column + 1) % size

\* let next_row = if next_column == 0 { row + 1 } else { row }
next_row(column, row, size) ==
    IF next_column(column, size) = 0 THEN row + 1 ELSE row

\* BacktrackingSolver::solve_rec as a function of the working copy: the
\* Solution it returns and the working copy it leaves.  solve_loop is its
\* for loop from the given number on, with the solution accumulated so far.
RECURSIVE solve_rec(_, _, _)
RECURSIVE solve_loop(_, _, _, _, _)
solve_rec(sudoku, column, row) ==
    LET size == sudoku.grid.size
        cell == get_cell(sudoku.grid, column, row)
    IN
    IF row = size THEN [solution |-> Unique(sudoku.grid), sudoku |-> sudoku]
    ELSE IF cell.tag # "Ok" THEN [solution |-> Panicked, sudoku |-> sudoku]
    ELSE IF cell.val # None
         THEN solve_rec(sudoku, next_column(column, size), next_row(column, row, size))
         ELSE solve_loop(sudoku, column, row, 1, Impossible)

solve_loop(sudoku, column, row, number, solution) ==
    LET size == sudoku.grid.size
        valid == is_valid_number(sudoku, column, row, number)
        placed == set_cell(sudoku.grid, column, row, number)
        next == solve_rec([sudoku EXCEPT !.grid = placed.grid],
                          next_column(column, size), next_row(column, row, size))
        cleared == clear_cell(next.sudoku.grid, column, row)
        after == [next.sudoku EXCEPT !.grid = cleared.grid]
        merged == union(solution, next.solution)
    IN
    IF number > size THEN [solution |-> solution, sudoku |-> sudoku]
    ELSE IF valid.tag # "Ok" THEN [solution |-> Panicked, sudoku |-> sudoku]
    ELSE IF ~valid.val THEN solve_loop(sudoku, column, row, number + 1, solution)
    ELSE IF placed.tag # "Ok" THEN [solution |-> Panicked, sudoku |-> sudoku]
    ELSE IF next.solution = Panicked THEN next
    ELSE IF cleared.tag # "Ok" THEN [solution |-> Panicked, sudoku |-> next.sudoku]
    ELSE IF merged = Ambiguous THEN [solution |-> merged, sudoku |-> after]
    ELSE solve_loop(after, column, row, number + 1, merged)

\* impl Solver for BacktrackingSolver: solve on a clone of the caller's sudoku.
solve(sudoku) == solve_rec(sudoku, 0, 0).solution

(***************************************************************************)
(* State                                                                   *)
(***************************************************************************)
VARIABLES
    grid,       \* the SudokuGrid the caller of the grid operations holds
    call,       \* the last grid operation and its arguments
    ret,        \* the tag of its result
    got,        \* the Option<usize> a get_cell returned
    code,       \* the text handed to SudokuGrid::parse
    origin,     \* the grid the text was encoded from (NoGrid: typed text)
    parsed,     \* the result of SudokuGrid::parse
    phase,      \* "grid": to encode, "text": to parse, "done": parsed
    sudoku,     \* the Sudoku (grid and constraint) the caller hands over
    given,      \* the Sudoku as it was when the call was made
    clone,      \* the solver's private working copy (let mut clone)
    stack,      \* the frames of the running recursion, the innermost last
    returned,   \* what the call that returned last returned
    result,     \* what the operation returned to its caller
    pc,         \* "ready", the running operation, "done" or "panic"
    lhs,        \* the Solution union is called on (self)
    rhs,        \* the Solution union is given (other)
    merged,     \* what union returned
    reductions, \* the scored candidates of the sweep, sorted
    solution_grid, \* the full grid the sweep started from (let solution)
    applied,    \* how many candidates the sweep has applied
    self_grid,  \* the grid is_subset / is_superset is called on
    other_grid, \* the grid it is given
    compared,   \* what the comparisons returned
    set,        \* the USizeSet the caller of the set operations holds
    set_call,   \* the last set operation, its arguments and the set before
    set_ret,    \* its result
    iter,       \* the USizeSetIter the caller holds
    yielded     \* what the iterator has returned so far

gridVars == <<grid, call, ret, got>>
parseVars == <<code, origin, parsed, phase>>
searchVars == <<sudoku, given, clone, stack, returned, result, pc>>
unionVars == <<lhs, rhs, merged>>
reduceVars == <<reductions, solution_grid, applied>>
compareVars == <<self_grid, other_grid, compared>>
setVars == <<set, set_call, set_ret, iter, yielded>>
vars == <<gridVars, parseVars, searchVars, unionVars, reduceVars, compareVars,
          setVars>>

\* What the operations on a grid, on text, of the searches and on Solution
\* values leave alone.
gridFrame == <<parseVars, searchVars, unionVars, reduceVars, compareVars, setVars>>
parseFrame == <<gridVars, searchVars, unionVars, reduceVars, compareVars, setVars>>
searchFrame == <<gridVars, parseVars, unionVars, reduceVars, compareVars, setVars>>
unionFrame == <<gridVars, parseVars, searchVars, reduceVars, compareVars, setVars>>
reduceFrame == <<gridVars, parseVars, unionVars, compareVars, setVars>>
compareFrame == <<gridVars, parseVars, searchVars, unionVars, reduceVars, setVars>>
setFrame == <<gridVars, parseVars, searchVars, unionVars, reduceVars, compareVars>>

\* The record of a grid operation.
Call(op, column, row, number) ==
    [op |-> op, column |-> column, row |-> row, number |-> number]

\* The components a specification does not exercise stay as constructed.
GridIdle ==
    /\ grid = NoGrid
    /\ call = Call("none", 0, 0, 0)
    /\ ret = "Ok"
    /\ got = None

ParseIdle ==
    /\ code = <<>>
    /\ origin = NoGrid
    /\ parsed = [tag |-> "none", grid |-> NoGrid]
    /\ phase = "idle"

\* No Sudoku: nothing was handed over, cloned or returned.
NoSudoku == [grid |-> NoGrid, constraint |-> [kind |-> "none"]]

\* No Solution: no call has returned.
NoReturn == [tag |-> "none", grid |-> NoGrid]

SearchIdle ==
    /\ sudoku = NoSudoku
    /\ given = NoSudoku
    /\ clone = NoSudoku
    /\ stack = <<>>
    /\ returned = NoReturn
    /\ result = NoReturn
    /\ pc = "idle"

UnionIdle ==
    /\ lhs = NoReturn
    /\ rhs = NoReturn
    /\ merged = NoReturn

ReduceIdle ==
    /\ reductions = <<>>
    /\ solution_grid = NoGrid
    /\ applied = 0

\* No comparison: is_subset was not called.
NoCompare == [tag |-> "none"]

CompareIdle ==
    /\ self_grid = NoGrid
    /\ other_grid = NoGrid
    /\ compared = NoCompare

\* No USizeSet, no call, no result and no iterator.
NoSet == [lower |-> 0, upper |-> 0, len |-> 0, content |-> <<>>, none |-> TRUE]
NoSetCall == [op |-> "none"]
NoSetRet == [tag |-> "none"]
NoIter == [none |-> TRUE]

SetIdle ==
    /\ set = NoSet
    /\ set_call = NoSetCall
    /\ set_ret = NoSetRet
    /\ iter = NoIter
    /\ yielded = <<>>

(***************************************************************************)
(* The grid operations as actions (specification SpecGrid)                 *)
(***************************************************************************)
\* Column and row arguments: in range and beyond the largest size.
Coords == 0..MaxSize

\* Digit arguments: 0, the digits, and one past the largest size.
Numbers == 0..(MaxSize + 1)

\* The cell values a deserializer may be handed for a grid of the given size.
RawCells(size) == {None} \cup (0..(size + MaxExcess))

\* The cell vectors a deserializer may be handed: every vector of the right
\* length over the raw cells, and the empty vectors of the other lengths.
RawCellVecs(d) ==
    [1..((d[1] * d[2]) * (d[1] * d[2])) -> RawCells(d[1] * d[2])]
        \cup {[i \in 1..n |-> None] : n \in 0..((d[1] * d[2]) * (d[1] * d[2]) + 1)}

\* Nothing is constructed yet: the caller holds no grid.
InitGrid ==
    /\ CompareIdle
    /\ SetIdle
    /\ ReduceIdle
    /\ GridIdle
    /\ ParseIdle
    /\ SearchIdle
    /\ UnionIdle

\* A panic aborts the program: nothing runs after it.
Running == ret # "Panic"

\* The caller holds a grid: a constructor has returned Ok.
Constructed == grid # NoGrid

\* let grid = SudokuGrid::new(block_width, block_height)
New ==
    /\ ~Constructed
    /\ \E d \in RawDims :
        LET r == new(d[1], d[2]) IN
        /\ call' = Call("new", d[1], d[2], 0)
        /\ ret' = r.tag
        /\ grid' = IF r.tag = "Ok" THEN r.grid ELSE grid
    /\ got' = None
    /\ UNCHANGED gridFrame

\* let grid: SudokuGrid = deserialize(..): visit_seq and visit_map end in
\* build_sudoku_grid(block_width, block_height, cells).
Deserialize ==
    /\ ~Constructed
    /\ \E d \in RawDims : \E cells \in RawCellVecs(d) :
        LET r == build_sudoku_grid(d[1], d[2], cells) IN
        /\ call' = Call("deserialize", d[1], d[2], 0)
        /\ ret' = r.tag
        /\ grid' = IF r.tag = "Ok" THEN r.grid ELSE grid
    /\ got' = None
    /\ UNCHANGED gridFrame

GetCell ==
    /\ Constructed /\ Running
    /\ \E column \in Coords, row \in Coords :
        LET r == get_cell(grid, column, row) IN
        /\ call' = Call("get_cell", column, row, 0)
        /\ ret' = r.tag
        /\ got' = r.val
    /\ UNCHANGED grid
    /\ UNCHANGED gridFrame

SetCell ==
    /\ Constructed /\ Running
    /\ \E column \in Coords, row \in Coords, number \in Numbers :
        LET r == set_cell(grid, column, row, number) IN
        /\ call' = Call("set_cell", column, row, number)
        /\ ret' = r.tag
        /\ grid' = r.grid
    /\ got' = None
    /\ UNCHANGED gridFrame

ClearCell ==
    /\ Constructed /\ Running
    /\ \E column \in Coords, row \in Coords :
        LET r == clear_cell(grid, column, row) IN
        /\ call' = Call("clear_cell", column, row, 0)
        /\ ret' = r.tag
        /\ grid' = r.grid
    /\ got' = None
    /\ UNCHANGED gridFrame

Assign ==
    /\ Constructed /\ Running
    /\ \E other \in Grids :
        LET r == assign(grid, other) IN
        /\ call' = Call("assign", other.block_width, other.block_height, 0)
        /\ ret' = r.tag
        /\ grid' = r.grid
    /\ got' = None
    /\ UNCHANGED gridFrame

NextGrid == New \/ Deserialize \/ GetCell \/ SetCell \/ ClearCell \/ Assign

SpecGrid == InitGrid /\ [][NextGrid]_vars

\* C7: get_cell, set_cell and clear_cell fail with OutOfBounds whenever the
\* column or the row is not below the size, and then leave the grid as it was.
C7_OutOfBoundsRejected ==
    [][(/\ call'.op \in {"get_cell", "set_cell", "clear_cell"}
        /\ (call'.column >= grid.size \/ call'.row >= grid.size))
       => (ret' = "OutOfBounds" /\ grid' = grid)]_vars

\* C9: every grid a validated construction path or a mutator yields has
\* size = block_width * block_height, size * size cells, and every present
\* digit in 1..size.
C9_GridWellFormed ==
    Constructed =>
        /\ grid.size = grid.block_width * grid.block_height
        /\ Len(grid.cells) = grid.size * grid.size
        /\ \A i \in 1..Len(grid.cells) :
              grid.cells[i] = None \/ grid.cells[i] \in 1..grid.size

(***************************************************************************)
(* Encoding and parsing as actions (specification SpecParse)               *)
(***************************************************************************)
\* Longest typed text handed to parse.
MaxLen == 5

\* The characters of the typed texts: digits, the sign str::parse accepts,
\* the three separators, white space and a character of no number.
Alphabet == {"0", "1", "2", "+", "x", ";", ",", " ", "#"}

\* The typed texts: every string over the alphabet of at most MaxLen characters.
Texts == UNION {[1..n -> Alphabet] : n \in 0..MaxLen}

\* Either a text is given (a typed one, or the expected encoding of a grid),
\* or a grid is to be encoded and parsed back.
InitParse ==
    /\ CompareIdle
    /\ SetIdle
    /\ ReduceIdle
    /\ GridIdle
    /\ SearchIdle
    /\ UnionIdle
    /\ parsed = [tag |-> "none", grid |-> NoGrid]
    /\ \/ /\ code \in Texts \cup {expected_parseable_string(g) : g \in Grids}
          /\ origin = NoGrid
          /\ phase = "text"
       \/ /\ code = <<>>
          /\ origin \in Grids
          /\ phase = "grid"

\* let code = grid.to_parseable_string()
Encode ==
    /\ phase = "grid"
    /\ code' = to_parseable_string(origin)
    /\ phase' = "text"
    /\ UNCHANGED <<origin, parsed>>
    /\ UNCHANGED parseFrame

\* let parsed = SudokuGrid::parse(code)
Parse ==
    /\ phase = "text"
    /\ parsed' = parse(code)
    /\ phase' = "done"
    /\ UNCHANGED <<code, origin>>
    /\ UNCHANGED parseFrame

NextParse == Encode \/ Parse

SpecParse == InitParse /\ [][NextParse]_vars

\* C8: parsing the encoding of a grid succeeds and gives the grid back.
C8_RoundTrip ==
    (phase = "done" /\ origin # NoGrid) =>
        (parsed.tag = "Ok" /\ parsed.grid = origin)

(***************************************************************************)
(* C10: what a text is, read off its characters (no splitting)             *)
(***************************************************************************)
\* The number of occurrences of a character in a text.
Count(s, ch) == Cardinality({i \in 1..Len(s) : s[i] = ch})

\* The position of the k-th occurrence of a character (0 for k = 0, one past
\* the end when there are fewer than k).
Pos(s, ch, k) ==
    IF k = 0 THEN 0
    ELSE IF k > Count(s, ch) THEN Len(s) + 1
    ELSE CHOOSE i \in 1..Len(s) : s[i] = ch /\ Count(SubSeq(s, 1, i), ch) = k

\* The k-th piece of a text cut at a character.
Piece(s, ch, k) == SubSeq(s, Pos(s, ch, k - 1) + 1, Pos(s, ch, k) - 1)

\* The digits of a text that may start with a plus sign.
Unsigned(s) == IF s # <<>> /\ s[1] = "+" THEN SubSeq(s, 2, Len(s)) ELSE s

\* A decimal integer: one or more digits, a plus sign allowed before them.
IsDecimal(s) == Unsigned(s) # <<>> /\ \A i \in 1..Len(Unsigned(s)) : IsDigit(Unsigned(s)[i])

\* Its value.
DecimalValue(s) == digits_value(Unsigned(s))

\* A blank entry: white space only.
IsBlank(s) == \A i \in 1..Len(s) : s[i] = " "

\* The entry without the white space around it.
Stripped(s) ==
    LET inked == {i \in 1..Len(s) : s[i] # " "} IN
    IF inked = {} THEN <<>>
    ELSE SubSeq(s, CHOOSE i \in inked : \A j \in inked : i <= j,
                   CHOOSE i \in inked : \A j \in inked : i >= j)

\* What an entry asks of a cell of a grid of the given size: "blank", a
\* "digit", "format" (no decimal integer) or "range" (0 or above the size).
EntryKind(e, size) ==
    IF IsBlank(e) THEN "blank"
    ELSE IF ~IsDecimal(Stripped(e)) THEN "format"
    ELSE IF DecimalValue(Stripped(e)) = 0 \/ DecimalValue(Stripped(e)) > size THEN "range"
    ELSE "digit"

\* The error, or "Ok", the documentation gives a text: the parts, then the
\* dimensions (shape, numbers, zero), then the number of cells, then the
\* first cell entry that is no digit of the grid.
ExpectedTag(text) ==
    IF Count(text, ";") # 1 THEN "WrongNumberOfParts"
    ELSE LET dims == Piece(text, ";", 1)
             cells == Piece(text, ";", 2)
         IN
         IF Count(dims, "x") # 1 THEN "MalformedDimensions"
         ELSE LET w == Piece(dims, "x", 1)
                  h == Piece(dims, "x", 2)
              IN
              IF ~IsDecimal(w) \/ ~IsDecimal(h) THEN "NumberFormatError"
              ELSE IF DecimalValue(w) = 0 \/ DecimalValue(h) = 0 THEN "InvalidDimensions"
              ELSE LET size == DecimalValue(w) * DecimalValue(h)
                       n == Count(cells, ",") + 1
                       bad == {k \in 1..n :
                                 EntryKind(Piece(cells, ",", k), size) \in {"format", "range"}}
                   IN
                   IF n # size * size THEN "WrongNumberOfCells"
                   ELSE IF bad = {} THEN "Ok"
                   ELSE IF EntryKind(Piece(cells, ",",
                                CHOOSE k \in bad : \A j \in bad : k <= j), size) = "format"
                        THEN "NumberFormatError"
                        ELSE "InvalidNumber"

\* The grid a well-formed text denotes.
ExpectedGrid(text) ==
    LET dims == Piece(text, ";", 1)
        cells == Piece(text, ";", 2)
        w == DecimalValue(Piece(dims, "x", 1))
        h == DecimalValue(Piece(dims, "x", 2))
    IN SudokuGrid(w, h,
          [k \in 1..((w * h) * (w * h)) |->
              IF IsBlank(Piece(cells, ",", k)) THEN None
              ELSE DecimalValue(Stripped(Piece(cells, ",", k)))])

\* C10: parse gives every malformed text the error of its kind and no grid,
\* the dimension errors before the cell count, and a well-formed text its grid.
C10_ParseErrors ==
    phase = "done" =>
        /\ parsed.tag = ExpectedTag(code)
        /\ parsed.tag # "Ok" => parsed.grid = NoGrid
        /\ parsed.tag = "Ok" => parsed.grid = ExpectedGrid(code)

\* C10 witness: the text "2x0;," of the test parse_invalid_dimensions has
\* been parsed: its dimension error comes before its wrong number of cells.
C10_Witness ==
    /\ phase = "done"
    /\ code = <<"2", "x", "0", ";", ",">>
    /\ parsed.tag = "InvalidDimensions"

(***************************************************************************)
(* BacktrackingSolver step by step (specification SpecSolve)               *)
(*                                                                         *)
(* A frame of solve_rec holds its column and row, the number of its for    *)
(* loop, the solution accumulated so far and where it stands: "enter" (at  *)
(* its first line), "tail" (in the call for a filled cell), "loop" (at the *)
(* head of the for loop) or "placed" (in the call made with a digit set).  *)
(***************************************************************************)
\* The rules the puzzles are posed under.
Constraints ==
    {DefaultConstraint, DiagonalsConstraint,
     CompositeConstraint(DefaultConstraint, DiagonalsConstraint)}

\* The killer rules the solver is given on grids of four cells: any of the
\* cages of the first column, the second row and the second column, each
\* with the sum 3, in this order.
KillerRules ==
    LET column0 == Cage({<<0, 0>>, <<0, 1>>}, 3)
        row1 == Cage({<<0, 1>>, <<1, 1>>}, 3)
        column1 == Cage({<<1, 0>>, <<1, 1>>}, 3)
    IN {KillerConstraint(SelectSeq(<<column0, row1, column1>>,
                                   LAMBDA cage : cage \in chosen)) :
            chosen \in SUBSET {column0, row1, column1}}

\* The rules the solver is given on the grid g.
SolvedUnder(g) == Constraints \cup (IF g.size = 2 THEN KillerRules ELSE {})

\* A frame of solve_rec (and of fill_rec) at its first line.
Frame(column, row) ==
    [column |-> column, row |-> row, number |-> 0, solution |-> Impossible,
     order |-> <<>>, at |-> "enter"]

\* The innermost frame.
Top == stack[Len(stack)]

\* The stack without its innermost frame.
Pop == SubSeq(stack, 1, Len(stack) - 1)

\* The stack with the innermost frame replaced.
WithTop(frame) == [stack EXCEPT ![Len(stack)] = frame]

\* The caller holds any grid of the explored dimensions under any rule.
InitSolve ==
    /\ CompareIdle
    /\ SetIdle
    /\ ReduceIdle
    /\ GridIdle
    /\ ParseIdle
    /\ UnionIdle
    /\ \E g \in Grids : \E c \in SolvedUnder(g) : sudoku = Sudoku(g, c)
    /\ given = sudoku
    /\ clone = NoSudoku
    /\ stack = <<>>
    /\ returned = NoReturn
    /\ result = NoReturn
    /\ pc = "ready"

\* A failed unwrap: the call stack is abandoned.
Panic ==
    /\ pc' = "panic"
    /\ UNCHANGED <<sudoku, given, clone, stack, returned, result>>

\* Solver::solve: let mut clone = sudoku.clone(); solve_rec(&mut clone, 0, 0)
Solve ==
    /\ pc = "ready"
    /\ pc' = "solve"
    /\ clone' = sudoku
    /\ stack' = <<Frame(0, 0)>>
    /\ UNCHANGED <<sudoku, given, returned, result>>
    /\ UNCHANGED searchFrame

\* solve_rec is running in its innermost frame, which stands at the place.
SolveAt(at) == pc = "solve" /\ stack # <<>> /\ Top.at = at

\* if last_cell { return Solution::Unique(sudoku.grid().clone()) }
SolveRecLastCell ==
    /\ SolveAt("enter")
    /\ Top.row = clone.grid.size
    /\ returned' = Unique(clone.grid)
    /\ stack' = Pop
    /\ UNCHANGED <<sudoku, given, clone, result, pc>>
    /\ UNCHANGED searchFrame

\* The cell is filled: solve_rec(sudoku, next_column, next_row).
SolveRecFilled ==
    /\ SolveAt("enter")
    /\ Top.row # clone.grid.size
    /\ LET cell == get_cell(clone.grid, Top.column, Top.row) IN
       /\ cell.tag = "Ok" /\ cell.val # None
       /\ stack' = Append(WithTop([Top EXCEPT !.at = "tail"]),
                          Frame(next_column(Top.column, clone.grid.size),
                                next_row(Top.column, Top.row, clone.grid.size)))
    /\ returned' = NoReturn
    /\ UNCHANGED <<sudoku, given, clone, result, pc>>
    /\ UNCHANGED searchFrame

\* The call for a filled cell has returned: its value is passed on.
SolveRecTailReturn ==
    /\ SolveAt("tail")
    /\ returned # NoReturn
    /\ stack' = Pop
    /\ UNCHANGED <<sudoku, given, clone, returned, result, pc>>
    /\ UNCHANGED searchFrame

\* The cell is empty: let mut solution = Solution::Impossible; for number in 1..
SolveRecEmpty ==
    /\ SolveAt("enter")
    /\ Top.row # clone.grid.size
    /\ LET cell == get_cell(clone.grid, Top.column, Top.row) IN
       /\ ~(cell.tag = "Ok" /\ cell.val # None)
       /\ IF cell.tag # "Ok" THEN Panic
          ELSE /\ stack' = WithTop([Top EXCEPT !.at = "loop", !.number = 1,
                                               !.solution = Impossible])
               /\ UNCHANGED <<sudoku, given, clone, returned, result, pc>>
    /\ UNCHANGED searchFrame

\* The number fails is_valid_number: the loop goes on with the next one.
SolveRecInvalid ==
    /\ SolveAt("loop")
    /\ Top.number <= clone.grid.size
    /\ LET valid == is_valid_number(clone, Top.column, Top.row, Top.number) IN
       /\ valid.tag = "Ok" /\ ~valid.val
       /\ stack' = WithTop([Top EXCEPT !.number = Top.number + 1])
    /\ UNCHANGED <<sudoku, given, clone, returned, result, pc>>
    /\ UNCHANGED searchFrame

\* The number passes: set_cell, then solve_rec(sudoku, next_column, next_row).
SolveRecPlace ==
    /\ SolveAt("loop")
    /\ Top.number <= clone.grid.size
    /\ LET valid == is_valid_number(clone, Top.column, Top.row, Top.number)
           placed == set_cell(clone.grid, Top.column, Top.row, Top.number)
       IN
       /\ ~(valid.tag = "Ok" /\ ~valid.val)
       /\ IF valid.tag # "Ok" \/ placed.tag # "Ok" THEN Panic
          ELSE /\ clone' = [clone EXCEPT !.grid = placed.grid]
               /\ stack' = Append(WithTop([Top EXCEPT !.at = "placed"]),
                                  Frame(next_column(Top.column, clone.grid.size),
                                        next_row(Top.column, Top.row, clone.grid.size)))
               /\ returned' = NoReturn
               /\ UNCHANGED <<sudoku, given, result, pc>>
    /\ UNCHANGED searchFrame

\* The backtrack step that leaves the loop on Ambiguous before it clears the
\* cell.
SolveRecBacktrack_break_first ==
    /\ SolveAt("placed")
    /\ returned # NoReturn
    /\ LET cleared == clear_cell(clone.grid, Top.column, Top.row)
           solution == union(Top.solution, returned)
       IN
       IF solution = Ambiguous
       THEN /\ stack' = Pop
            /\ returned' = solution
            /\ UNCHANGED <<sudoku, given, clone, result, pc>>
       ELSE /\ clone' = [clone EXCEPT !.grid = cleared.grid]
            /\ stack' = WithTop([Top EXCEPT !.at = "loop", !.number = Top.number + 1,
                                            !.solution = solution])
            /\ returned' = NoReturn
            /\ UNCHANGED <<sudoku, given, result, pc>>
    /\ UNCHANGED searchFrame

\* The backtrack step that keeps the outcome of the last branch only.
SolveRecBacktrack_last_only ==
    /\ SolveAt("placed")
    /\ returned # NoReturn
    /\ LET cleared == clear_cell(clone.grid, Top.column, Top.row)
           solution == returned
       IN
       IF cleared.tag # "Ok" THEN Panic
       ELSE /\ clone' = [clone EXCEPT !.grid = cleared.grid]
            /\ IF solution = Ambiguous
               THEN /\ stack' = Pop
                    /\ returned' = solution
               ELSE /\ stack' = WithTop([Top EXCEPT !.at = "loop",
                                                    !.number = Top.number + 1,
                                                    !.solution = solution])
                    /\ returned' = NoReturn
            /\ UNCHANGED <<sudoku, given, result, pc>>
    /\ UNCHANGED searchFrame

\* The backtrack step without the break: the loop goes on when the solution
\* has become Ambiguous.
SolveRecBacktrack_no_break ==
    /\ SolveAt("placed")
    /\ returned # NoReturn
    /\ LET cleared == clear_cell(clone.grid, Top.column, Top.row)
           solution == union(Top.solution, returned)
       IN
       IF cleared.tag # "Ok" THEN Panic
       ELSE /\ clone' = [clone EXCEPT !.grid = cleared.grid]
            /\ stack' = WithTop([Top EXCEPT !.at = "loop",
                                            !.number = Top.number + 1,
                                            !.solution = solution])
            /\ returned' = NoReturn
            /\ UNCHANGED <<sudoku, given, result, pc>>
    /\ UNCHANGED searchFrame

\* The call made with the digit set has returned: clear_cell; solution =
\* solution.union(next_solution); if solution == Ambiguous { break } and the
\* solution is returned; otherwise the loop goes on with the next number.
SolveRecBacktrack ==
    /\ SolveAt("placed")
    /\ returned # NoReturn
    /\ LET cleared == clear_cell(clone.grid, Top.column, Top.row)
           solution == union(Top.solution, returned)
       IN
       IF cleared.tag # "Ok" THEN Panic
       ELSE /\ clone' = [clone EXCEPT !.grid = cleared.grid]
            /\ IF solution = Ambiguous
               THEN /\ stack' = Pop
                    /\ returned' = solution
               ELSE /\ stack' = WithTop([Top EXCEPT !.at = "loop",
                                                    !.number = Top.number + 1,
                                                    !.solution = solution])
                    /\ returned' = NoReturn
            /\ UNCHANGED <<sudoku, given, result, pc>>
    /\ UNCHANGED searchFrame

\* The for loop is over: the accumulated solution is returned.
SolveRecLoopEnd ==
    /\ SolveAt("loop")
    /\ Top.number > clone.grid.size
    /\ returned' = Top.solution
    /\ stack' = Pop
    /\ UNCHANGED <<sudoku, given, clone, result, pc>>
    /\ UNCHANGED searchFrame

\* solve_rec(sudoku, 0, 0) has returned: solve returns its Solution.
SolveReturn ==
    /\ pc = "solve"
    /\ stack = <<>>
    /\ result' = returned
    /\ pc' = "done"
    /\ UNCHANGED <<sudoku, given, clone, stack, returned>>
    /\ UNCHANGED searchFrame

NextSolve ==
    \/ Solve
    \/ SolveRecLastCell
    \/ SolveRecFilled
    \/ SolveRecTailReturn
    \/ SolveRecEmpty
    \/ SolveRecInvalid
    \/ SolveRecPlace
    \/ SolveRecBacktrack
    \/ SolveRecLoopEnd
    \/ SolveReturn

SpecSolve == InitSolve /\ [][NextSolve]_vars

(***************************************************************************)
(* Solution::union on every pair of Solution values (specification         *)
(* SpecUnion)                                                              *)
(***************************************************************************)
\* The Solution values over the explored grids.
Solutions == {Impossible, Ambiguous} \cup {Unique(g) : g \in Grids}

InitUnion ==
    /\ CompareIdle
    /\ SetIdle
    /\ ReduceIdle
    /\ GridIdle
    /\ ParseIdle
    /\ SearchIdle
    /\ lhs \in Solutions
    /\ rhs \in Solutions
    /\ merged = NoReturn

\* let merged = lhs.union(rhs)
Union ==
    /\ lhs # NoReturn
    /\ merged = NoReturn
    /\ merged' = union(lhs, rhs)
    /\ UNCHANGED <<lhs, rhs>>
    /\ UNCHANGED unionFrame

NextUnion == Union

SpecUnion == InitUnion /\ [][NextUnion]_vars

\* C6: once union has returned, its value is the one of the combination
\* table: Impossible is an identity on both sides, Ambiguous absorbs on both
\* sides, and two Unique values give the first when their grids are equal and
\* Ambiguous otherwise.
C6_UnionTable ==
    merged # NoReturn =>
        /\ lhs = Impossible => merged = rhs
        /\ rhs = Impossible => merged = lhs
        /\ (lhs = Ambiguous \/ rhs = Ambiguous) => merged = Ambiguous
        /\ (lhs.tag = "Unique" /\ rhs.tag = "Unique" /\ lhs.grid = rhs.grid)
               => merged = lhs
        /\ (lhs.tag = "Unique" /\ rhs.tag = "Unique" /\ lhs.grid # rhs.grid)
               => merged = Ambiguous

\* C6 witness: union has been applied to two Unique values of different grids.
C6_Witness ==
    /\ merged = Ambiguous
    /\ lhs.tag = "Unique"
    /\ rhs.tag = "Unique"
    /\ lhs.grid # rhs.grid

(***************************************************************************)
(* What the solver is measured against: the valid completions of a puzzle  *)
(***************************************************************************)
\* The full grids of the dimensions of a grid.
FullGridsLike(g) ==
    {SudokuGrid(g.block_width, g.block_height, cells) :
        cells \in [1..(g.size * g.size) -> 1..g.size]}

\* The valid completions of a puzzle: the full grids that are supersets of
\* its grid and pass its constraint's check.
Completions(puzzle) ==
    {g \in FullGridsLike(puzzle.grid) :
        /\ is_superset(g, puzzle.grid) = [tag |-> "Ok", val |-> TRUE]
        /\ check(puzzle.constraint, g)}

\* The Solution that classifies a set of grids.
Classified(completions) ==
    IF completions = {} THEN Impossible
    ELSE IF Cardinality(completions) = 1
         THEN Unique(CHOOSE g \in completions : TRUE)
         ELSE Ambiguous

\* C1 as stated: whatever the given clues are, solve returns the Solution
\* that classifies the valid completions of the puzzle.
C1_ClassifiesAnyClues ==
    pc = "done" => result = Classified(Completions(given))

\* C1 as amended: when the given clues pass the constraint's check, solve
\* returns Impossible iff there is no valid completion, Unique(g) iff g is
\* the only one, and Ambiguous iff there are two or more.
C1_ClassifiesValidClues ==
    (pc = "done" /\ is_valid(given)) =>
        LET completions == Completions(given) IN
        /\ result \in {Impossible, Ambiguous} \cup {Unique(g) : g \in completions}
        /\ result = Impossible <=> completions = {}
        /\ result.tag = "Unique" <=> Cardinality(completions) = 1
        /\ result = Ambiguous <=> Cardinality(completions) >= 2

\* C1 witness: the solver has returned the one completion of a partial grid
\* with valid clues that it had to search for.
C1_Witness ==
    /\ pc = "done"
    /\ is_valid(given)
    /\ ~is_full(given.grid)
    /\ ~is_empty(given.grid)
    /\ result.tag = "Unique"
    /\ result.grid # given.grid

\* C5: the caller's Sudoku is never touched while solve runs, and when solve
\* has returned, whatever it returned, the working copy is equal to the
\* Sudoku that was handed over.
C5_CallerUntouched ==
    /\ pc \in {"solve", "done"} => sudoku = given
    /\ pc = "done" => clone = given

\* C5 witness: solve has returned Ambiguous from a digit loop that it left
\* early (the first cell was left at its first number), with the working copy
\* restored.
C5_Witness ==
    /\ pc = "done"
    /\ result = Ambiguous
    /\ is_empty(given.grid)
    /\ given.constraint = DiagonalsConstraint
    /\ given.grid.size = 2
    /\ clone = given

(***************************************************************************)
(* Generator::fill step by step (specification SpecFill)                   *)
(*                                                                         *)
(* fill works on the caller's Sudoku in place.  A frame of fill_rec holds  *)
(* its column and row, the shuffled numbers (order), the position of the   *)
(* for loop in them (number) and where it stands, as a frame of solve_rec. *)
(***************************************************************************)
\* vec.swap(i, j), with Rust's indices
swap(vec, i, j) == [vec EXCEPT ![i + 1] = vec[j + 1], ![j + 1] = vec[i + 1]]

\* for i in 0..(len - 1) { let j = rng.gen_range(i..len); vec.swap(i, j); }
\* where picks[i + 1] is the j the random source gives at i.
RECURSIVE shuffle_from(_, _, _)
shuffle_from(vec, i, picks) ==
    IF i >= Len(vec) - 1 THEN vec
    ELSE shuffle_from(swap(vec, i, picks[i + 1]), i + 1, picks)

\* A shuffle that returns the first value only.
shuffle_first_only(values, picks) == <<values[1]>>

\* shuffle(rng, values)
shuffle(values, picks) == shuffle_from(values, 0, picks)

\* What rng.gen_range(i..len) can give over the iterations of one shuffle.
Picks(len) ==
    {picks \in [1..(len - 1) -> 0..(len - 1)] :
        \A k \in 1..(len - 1) : picks[k] >= k - 1}

\* 1..=size, collected
Candidates(size) == [k \in 1..size |-> k]

\* fill_rec returned true, or false.
ReturnedTrue == [tag |-> "true", grid |-> NoGrid]
ReturnedFalse == [tag |-> "false", grid |-> NoGrid]

\* Ok(()) and Err(SudokuError::UnsatisfiableConstraint)
FillOk == [tag |-> "Ok", grid |-> NoGrid]
UnsatisfiableConstraint == [tag |-> "UnsatisfiableConstraint", grid |-> NoGrid]

\* The caller holds any grid of the explored dimensions under any rule.
InitFill ==
    /\ CompareIdle
    /\ SetIdle
    /\ ReduceIdle
    /\ GridIdle
    /\ ParseIdle
    /\ UnionIdle
    /\ sudoku \in {Sudoku(g, c) : g \in Grids, c \in Constraints}
    /\ given = sudoku
    /\ clone = NoSudoku
    /\ stack = <<>>
    /\ returned = NoReturn
    /\ result = NoReturn
    /\ pc = "ready"

\* Generator::fill: self.fill_rec(sudoku, 0, 0)
Fill ==
    /\ pc = "ready"
    /\ pc' = "fill"
    /\ stack' = <<Frame(0, 0)>>
    /\ UNCHANGED <<sudoku, given, clone, returned, result>>
    /\ UNCHANGED searchFrame

\* fill_rec is running in its innermost frame, which stands at the place.
FillAt(at) == pc = "fill" /\ stack # <<>> /\ Top.at = at

\* if row == size { return true }
FillRecDone ==
    /\ FillAt("enter")
    /\ Top.row = sudoku.grid.size
    /\ returned' = ReturnedTrue
    /\ stack' = Pop
    /\ UNCHANGED <<sudoku, given, clone, result, pc>>
    /\ UNCHANGED searchFrame

\* The cell is filled: return self.fill_rec(sudoku, next_column, next_row).
FillRecFilled ==
    /\ FillAt("enter")
    /\ Top.row # sudoku.grid.size
    /\ LET cell == get_cell(sudoku.grid, Top.column, Top.row) IN
       /\ cell.tag = "Ok" /\ cell.val # None
       /\ stack' = Append(WithTop([Top EXCEPT !.at = "tail"]),
                          Frame(next_column(Top.column, sudoku.grid.size),
                                next_row(Top.column, Top.row, sudoku.grid.size)))
    /\ returned' = NoReturn
    /\ UNCHANGED <<sudoku, given, clone, result, pc>>
    /\ UNCHANGED searchFrame

\* The call for a filled cell has returned: its value is passed on.
FillRecTailReturn ==
    /\ FillAt("tail")
    /\ returned # NoReturn
    /\ stack' = Pop
    /\ UNCHANGED <<sudoku, given, clone, returned, result, pc>>
    /\ UNCHANGED searchFrame

\* The cell is empty: for number in shuffle(&mut self.rng, 1..=size)
FillRecShuffle ==
    /\ FillAt("enter")
    /\ Top.row # sudoku.grid.size
    /\ LET cell == get_cell(sudoku.grid, Top.column, Top.row) IN
       /\ ~(cell.tag = "Ok" /\ cell.val # None)
       /\ IF cell.tag # "Ok" THEN Panic
          ELSE /\ \E picks \in Picks(sudoku.grid.size) :
                    stack' = WithTop([Top EXCEPT
                        !.at = "loop", !.number = 1,
                        !.order = shuffle(Candidates(sudoku.grid.size), picks)])
               /\ UNCHANGED <<sudoku, given, clone, returned, result, pc>>
    /\ UNCHANGED searchFrame

\* The number fails is_valid_number: the loop goes on with the next one.
FillRecInvalid ==
    /\ FillAt("loop")
    /\ Top.number <= Len(Top.order)
    /\ LET valid == is_valid_number(sudoku, Top.column, Top.row,
                                    Top.order[Top.number]) IN
       /\ valid.tag = "Ok" /\ ~valid.val
       /\ stack' = WithTop([Top EXCEPT !.number = Top.number + 1])
    /\ UNCHANGED <<sudoku, given, clone, returned, result, pc>>
    /\ UNCHANGED searchFrame

\* The number passes: set_cell, then self.fill_rec(sudoku, next_column, next_row).
FillRecPlace ==
    /\ FillAt("loop")
    /\ Top.number <= Len(Top.order)
    /\ LET valid == is_valid_number(sudoku, Top.column, Top.row,
                                    Top.order[Top.number])
           placed == set_cell(sudoku.grid, Top.column, Top.row,
                              Top.order[Top.number])
       IN
       /\ ~(valid.tag = "Ok" /\ ~valid.val)
       /\ IF valid.tag # "Ok" \/ placed.tag # "Ok" THEN Panic
          ELSE /\ sudoku' = [sudoku EXCEPT !.grid = placed.grid]
               /\ stack' = Append(WithTop([Top EXCEPT !.at = "placed"]),
                                  Frame(next_column(Top.column, sudoku.grid.size),
                                        next_row(Top.column, Top.row, sudoku.grid.size)))
               /\ returned' = NoReturn
               /\ UNCHANGED <<given, clone, result, pc>>
    /\ UNCHANGED searchFrame

\* The call made with the digit set returned true: return true.
FillRecKeep ==
    /\ FillAt("placed")
    /\ returned = ReturnedTrue
    /\ stack' = Pop
    /\ UNCHANGED <<sudoku, given, clone, returned, result, pc>>
    /\ UNCHANGED searchFrame

\* The backtrack step that leaves the digit in the cell.
FillRecBacktrack_no_clear ==
    /\ FillAt("placed")
    /\ returned = ReturnedFalse
    /\ stack' = WithTop([Top EXCEPT !.at = "loop", !.number = Top.number + 1])
    /\ returned' = NoReturn
    /\ UNCHANGED <<sudoku, given, clone, result, pc>>
    /\ UNCHANGED searchFrame

\* The call made with the digit set returned false: clear_cell, and the loop
\* goes on with the next number.
FillRecBacktrack ==
    /\ FillAt("placed")
    /\ returned = ReturnedFalse
    /\ LET cleared == clear_cell(sudoku.grid, Top.column, Top.row) IN
       IF cleared.tag # "Ok" THEN Panic
       ELSE /\ sudoku' = [sudoku EXCEPT !.grid = cleared.grid]
            /\ stack' = WithTop([Top EXCEPT !.at = "loop",
                                            !.number = Top.number + 1])
            /\ returned' = NoReturn
            /\ UNCHANGED <<given, clone, result, pc>>
    /\ UNCHANGED searchFrame

\* The end of the loop that returns true.
FillRecLoopEnd_true ==
    /\ FillAt("loop")
    /\ Top.number > Len(Top.order)
    /\ returned' = ReturnedTrue
    /\ stack' = Pop
    /\ UNCHANGED <<sudoku, given, clone, result, pc>>
    /\ UNCHANGED searchFrame

\* The for loop is over: return false.
FillRecLoopEnd ==
    /\ FillAt("loop")
    /\ Top.number > Len(Top.order)
    /\ returned' = ReturnedFalse
    /\ stack' = Pop
    /\ UNCHANGED <<sudoku, given, clone, result, pc>>
    /\ UNCHANGED searchFrame

\* if self.fill_rec(sudoku, 0, 0) { Ok(()) }
\* else { Err(SudokuError::UnsatisfiableConstraint) }
FillReturn ==
    /\ pc = "fill"
    /\ stack = <<>>
    /\ result' = IF returned = ReturnedTrue THEN FillOk
                 ELSE UnsatisfiableConstraint
    /\ pc' = "done"
    /\ UNCHANGED <<sudoku, given, clone, stack, returned>>
    /\ UNCHANGED searchFrame

NextFill ==
    \/ Fill
    \/ FillRecDone
    \/ FillRecFilled
    \/ FillRecTailReturn
    \/ FillRecShuffle
    \/ FillRecInvalid
    \/ FillRecPlace
    \/ FillRecKeep
    \/ FillRecBacktrack
    \/ FillRecLoopEnd
    \/ FillReturn

SpecFill == InitFill /\ [][NextFill]_vars

\* C3 as stated: whenever fill has returned Ok on an empty or partially
\* pre-filled grid, whatever its pre-filled cells are, the grid is full and
\* passes the constraint's check.
C3_FilledFullAndValid ==
    (pc = "done" /\ result = FillOk /\ ~is_full(given.grid)) =>
        (is_full(sudoku.grid) /\ is_valid(sudoku))

\* C3 as amended: whenever fill has returned Ok on a Sudoku whose pre-filled
\* cells passed the constraint's check, the grid is full and passes the check,
\* whatever the shuffles gave.
C3_FilledValidClues ==
    (pc = "done" /\ result = FillOk /\ is_valid(given)) =>
        (is_full(sudoku.grid) /\ is_valid(sudoku))

\* C3 witness: fill has returned Ok on a partially pre-filled grid that it
\* had to fill.
C3_Witness ==
    /\ pc = "done"
    /\ result = FillOk
    /\ is_valid(given)
    /\ ~is_empty(given.grid)
    /\ ~is_full(given.grid)
    /\ is_full(sudoku.grid)

\* C4: when fill has returned and not Ok, it has returned
\* Err(UnsatisfiableConstraint) and the grid is equal to the grid before the
\* call; and fill does fail so when the pre-filled cells pass the check and
\* no valid completion exists.
C4_FailedFillRestores ==
    /\ (pc = "done" /\ result # FillOk) =>
           (result = UnsatisfiableConstraint /\ sudoku = given)
    /\ (pc = "done" /\ is_valid(given) /\ Completions(given) = {}) =>
           result = UnsatisfiableConstraint

\* C4 witness: fill has failed on an empty grid of four cells, where it did
\* place digits, and the grid is empty again.
C4_Witness ==
    /\ pc = "done"
    /\ result = UnsatisfiableConstraint
    /\ given.grid.size = 2
    /\ is_empty(given.grid)
    /\ is_empty(sudoku.grid)

(***************************************************************************)
(* Reducer::reduce_with_priority (specification SpecReduce)                *)
(*                                                                         *)
(* A candidate is [kind |-> "RemoveDigit", column, row] or                 *)
(* [kind |-> "ReduceConstraint", reduction]; a scored candidate is         *)
(* [score, reduction].  The score that prioritize gives (the priority of   *)
(* the prioritizer plus the noise of the random source) is any of Scores.  *)
(***************************************************************************)
MaxScore == 2
MaxCages == 2

Scores == 0..MaxScore

\* Reduction::RemoveDigit { column, row }
RemoveDigit(column, row) == [kind |-> "RemoveDigit", column |-> column, row |-> row]

\* Reduction::ReduceConstraint { reduction }
ReduceConstraint(r) == [kind |-> "ReduceConstraint", reduction |-> r]

\* The reductions of the constraint alone, without the digit reductions.
reduction_tokens_only(s) ==
    LET tokens == list_reductions(s.constraint, s.grid)
    IN [k \in 1..Len(tokens) |-> ReduceConstraint(tokens[k])]

\* reduction(sudoku): the digit reductions, column by column, chained with
\* the reductions of the constraint.
reduction(s) ==
    LET size == s.grid.size
        tokens == list_reductions(s.constraint, s.grid)
    IN [k \in 1..(size * size) |-> RemoveDigit((k - 1) \div size, (k - 1) % size)]
          \o [k \in 1..Len(tokens) |-> ReduceConstraint(tokens[k])]

\* One step of the stable sort: the entry goes behind the entries of a score
\* that is not greater.
RECURSIVE insert_sorted(_, _)
insert_sorted(sorted, entry) ==
    IF sorted = <<>> THEN <<entry>>
    ELSE IF sorted[Len(sorted)].score <= entry.score THEN Append(sorted, entry)
    ELSE Append(insert_sorted(SubSeq(sorted, 1, Len(sorted) - 1), entry),
                sorted[Len(sorted)])

\* The candidates left in the order of reduction(sudoku).
sort_by_unsorted(entries) == entries

\* reductions.sort_by(|(p1, _), (p2, _)| p1.partial_cmp(p2).unwrap())
RECURSIVE sort_by(_)
sort_by(entries) ==
    IF entries = <<>> THEN <<>>
    ELSE insert_sorted(sort_by(SubSeq(entries, 1, Len(entries) - 1)),
                       entries[Len(entries)])

\* Reduction::apply without the restoring set_cell.
apply_no_restore(r, s, solution) ==
    IF r.kind = "RemoveDigit"
    THEN LET cell == get_cell(s.grid, r.column, r.row)
             cleared == clear_cell(s.grid, r.column, r.row)
         IN IF cell.tag # "Ok" \/ cell.val = None \/ cleared.tag # "Ok"
            THEN [tag |-> "Panic", sudoku |-> s]
            ELSE [tag |-> "Ok", sudoku |-> [s EXCEPT !.grid = cleared.grid]]
    ELSE LET reduce_res == reduce(s.constraint, solution, r.reduction)
             reduced == [s EXCEPT !.constraint = reduce_res.constraint]
         IN IF reduce_res.tag # "Ok" THEN [tag |-> "Ok", sudoku |-> s]
            ELSE IF solve(reduced).tag = "Unique"
            THEN [tag |-> "Ok", sudoku |-> reduced]
            ELSE [tag |-> "Ok",
                  sudoku |-> [s EXCEPT !.constraint =
                      revert(reduced.constraint, solution, r.reduction,
                             reduce_res.info)]]

\* Reduction::apply that restores the digit 1 instead of the digit read.
apply_restore_one(r, s, solution) ==
    IF r.kind = "RemoveDigit"
    THEN LET cell == get_cell(s.grid, r.column, r.row)
             cleared == clear_cell(s.grid, r.column, r.row)
             removed == [s EXCEPT !.grid = cleared.grid]
             restored == set_cell(removed.grid, r.column, r.row, 1)
         IN IF cell.tag # "Ok" \/ cell.val = None \/ cleared.tag # "Ok"
            THEN [tag |-> "Panic", sudoku |-> s, solves |-> 0]
            ELSE IF solve(removed).tag = "Unique"
            THEN [tag |-> "Ok", sudoku |-> removed, solves |-> 1]
            ELSE IF restored.tag # "Ok"
            THEN [tag |-> "Panic", sudoku |-> removed, solves |-> 1]
            ELSE [tag |-> "Ok", sudoku |-> [s EXCEPT !.grid = restored.grid],
                  solves |-> 1]
    ELSE LET reduce_res == reduce(s.constraint, solution, r.reduction)
             reduced == [s EXCEPT !.constraint = reduce_res.constraint]
         IN IF reduce_res.tag # "Ok" THEN [tag |-> "Ok", sudoku |-> s, solves |-> 0]
            ELSE IF solve(reduced).tag = "Unique"
            THEN [tag |-> "Ok", sudoku |-> reduced, solves |-> 1]
            ELSE [tag |-> "Ok",
                  sudoku |-> [s EXCEPT !.constraint =
                      revert(reduced.constraint, solution, r.reduction,
                             reduce_res.info)],
                  solves |-> 1]

\* Reduction::apply without the revert of a rejected relaxation.
apply_no_revert(r, s, solution) ==
    IF r.kind = "RemoveDigit"
    THEN LET cell == get_cell(s.grid, r.column, r.row)
             cleared == clear_cell(s.grid, r.column, r.row)
             removed == [s EXCEPT !.grid = cleared.grid]
             restored == set_cell(removed.grid, r.column, r.row, cell.val)
         IN IF cell.tag # "Ok" \/ cell.val = None \/ cleared.tag # "Ok"
            THEN [tag |-> "Panic", sudoku |-> s, solves |-> 0]
            ELSE IF solve(removed).tag = "Unique"
            THEN [tag |-> "Ok", sudoku |-> removed, solves |-> 1]
            ELSE IF restored.tag # "Ok"
            THEN [tag |-> "Panic", sudoku |-> removed, solves |-> 1]
            ELSE [tag |-> "Ok", sudoku |-> [s EXCEPT !.grid = restored.grid],
                  solves |-> 1]
    ELSE LET reduce_res == reduce(s.constraint, solution, r.reduction)
             reduced == [s EXCEPT !.constraint = reduce_res.constraint]
         IN IF reduce_res.tag # "Ok" THEN [tag |-> "Ok", sudoku |-> s, solves |-> 0]
            ELSE [tag |-> "Ok", sudoku |-> reduced, solves |-> 1]

\* Reduction::apply: [tag, sudoku, solves], where tag is "Panic" when an
\* unwrap failed, sudoku is the Sudoku afterwards and solves the number of
\* calls of solver.solve.
apply(r, s, solution) ==
    IF r.kind = "RemoveDigit"
    THEN LET cell == get_cell(s.grid, r.column, r.row)
             cleared == clear_cell(s.grid, r.column, r.row)
             removed == [s EXCEPT !.grid = cleared.grid]
             restored == set_cell(removed.grid, r.column, r.row, cell.val)
         IN IF cell.tag # "Ok" \/ cell.val = None \/ cleared.tag # "Ok"
            THEN [tag |-> "Panic", sudoku |-> s, solves |-> 0]
            ELSE IF solve(removed).tag = "Unique"
            THEN [tag |-> "Ok", sudoku |-> removed, solves |-> 1]
            ELSE IF restored.tag # "Ok"
            THEN [tag |-> "Panic", sudoku |-> removed, solves |-> 1]
            ELSE [tag |-> "Ok", sudoku |-> [s EXCEPT !.grid = restored.grid],
                  solves |-> 1]
    ELSE LET reduce_res == reduce(s.constraint, solution, r.reduction)
             reduced == [s EXCEPT !.constraint = reduce_res.constraint]
         IN IF reduce_res.tag # "Ok" THEN [tag |-> "Ok", sudoku |-> s, solves |-> 0]
            ELSE IF solve(reduced).tag = "Unique"
            THEN [tag |-> "Ok", sudoku |-> reduced, solves |-> 1]
            ELSE [tag |-> "Ok",
                  sudoku |-> [s EXCEPT !.constraint =
                      revert(reduced.constraint, solution, r.reduction,
                             reduce_res.info)],
                  solves |-> 1]

\* The cages a killer rule can have over a full grid: the cell (0, 0), the
\* first two cells of the first row and the cell (1, 1), with the sums the
\* grid gives them.
CagesOf(g) ==
    LET shapes == {{<<0, 0>>}}
                    \cup (IF g.size >= 2
                          THEN {{<<0, 0>>, <<1, 0>>}, {<<1, 1>>}} ELSE {})
    IN {Cage(cells, SumOf(g, cells)) : cells \in shapes}

\* The lists of at most MaxCages cages over a full grid, no cell in two cages.
CageLists(g) ==
    {cages \in UNION {[1..n -> CagesOf(g)] : n \in 0..MaxCages} :
        \A i, j \in 1..Len(cages) :
            i # j => cages[i].cells \cap cages[j].cells = {}}

\* The rules a full grid is reduced under: the irreducible ones, and the
\* row/column/box rule composed with a killer rule.
ReducedUnder(g) ==
    Constraints
        \cup {CompositeConstraint(DefaultConstraint, KillerConstraint(cages)) :
                cages \in CageLists(g)}

\* The full grids of the explored dimensions.
FullGrids == {g \in Grids : is_full(g)}

\* The caller holds a full grid that passes the check of its constraint.
InitReduce ==
    /\ CompareIdle
    /\ SetIdle
    /\ GridIdle
    /\ ParseIdle
    /\ UnionIdle
    /\ ReduceIdle
    /\ \E g \in FullGrids : \E c \in ReducedUnder(g) :
          /\ check(c, g)
          /\ sudoku = Sudoku(g, c)
    /\ given = sudoku
    /\ clone = NoSudoku
    /\ stack = <<>>
    /\ returned = NoReturn
    /\ result = NoReturn
    /\ pc = "ready"

\* reduce_with_priority up to its for loop: the candidates are scored and
\* sorted and the full grid is cloned.  A prioritizer that gives NaN makes
\* partial_cmp(..).unwrap() panic in the sort of two or more candidates.
Reduce ==
    /\ pc = "ready"
    /\ LET candidates == reduction(sudoku) IN
       \/ /\ \E scores \in [1..Len(candidates) -> Scores] :
                reductions' = sort_by([k \in 1..Len(candidates) |->
                    [score |-> scores[k], reduction |-> candidates[k]]])
          /\ solution_grid' = sudoku.grid
          /\ applied' = 0
          /\ pc' = "sweep"
       \/ /\ Len(candidates) >= 2
          /\ pc' = "panic"
          /\ UNCHANGED reduceVars
    /\ UNCHANGED <<sudoku, given, clone, stack, returned, result>>
    /\ UNCHANGED reduceFrame

\* for (_, reduction) in reductions { reduction.apply(sudoku, &solution,
\* &self.solver) }: one iteration.
Apply ==
    /\ pc = "sweep"
    /\ applied < Len(reductions)
    /\ LET res == apply(reductions[applied + 1].reduction, sudoku, solution_grid) IN
       /\ sudoku' = res.sudoku
       /\ IF res.tag = "Panic"
          THEN pc' = "panic" /\ UNCHANGED applied
          ELSE pc' = pc /\ applied' = applied + 1
    /\ UNCHANGED <<given, clone, stack, returned, result>>
    /\ UNCHANGED <<reductions, solution_grid>>
    /\ UNCHANGED reduceFrame

\* The for loop is over: reduce_with_priority returns.
ReduceReturn ==
    /\ pc = "sweep"
    /\ applied = Len(reductions)
    /\ pc' = "done"
    /\ UNCHANGED <<sudoku, given, clone, stack, returned, result>>
    /\ UNCHANGED reduceVars
    /\ UNCHANGED reduceFrame

NextReduce ==
    \/ Reduce
    \/ Apply
    \/ ReduceReturn

SpecReduce == InitReduce /\ [][NextReduce]_vars

\* C2: from the start of the sweep on, after every applied candidate and
\* when reduce has returned, the solver returns Unique on the puzzle.
C2_ReducedStaysUnique ==
    pc \in {"sweep", "done"} => solve(sudoku).tag = "Unique"

\* C2 witness: reduce has returned a puzzle of four cells with one clue left
\* (three digits were removed and the removal of the fourth was undone).
C2_Witness ==
    /\ pc = "done"
    /\ sudoku.grid.size = 2
    /\ sudoku.constraint = DefaultConstraint
    /\ count_clues(sudoku.grid) = 1

(***************************************************************************)
(* SudokuGrid::is_subset / is_superset on every pair of grids              *)
(* (specification SpecCompare)                                             *)
(***************************************************************************)
InitCompare ==
    /\ GridIdle
    /\ ParseIdle
    /\ SearchIdle
    /\ UnionIdle
    /\ ReduceIdle
    /\ SetIdle
    /\ self_grid \in Grids
    /\ other_grid \in Grids
    /\ compared = NoCompare

\* The calls of assert_subset_relation, and those of a grid with itself.
Compare ==
    /\ self_grid # NoGrid
    /\ compared = NoCompare
    /\ compared' = [tag |-> "done",
                    subset |-> is_subset(self_grid, other_grid),
                    superset |-> is_superset(self_grid, other_grid),
                    reverse |-> is_subset(other_grid, self_grid),
                    self_subset |-> is_subset(self_grid, self_grid),
                    self_superset |-> is_superset(self_grid, self_grid)]
    /\ UNCHANGED <<self_grid, other_grid>>
    /\ UNCHANGED compareFrame

NextCompare == Compare

SpecCompare == InitCompare /\ [][NextCompare]_vars

\* Every digit present in grid a is present with the same value in the same
\* cell of grid b, cell by cell through get_cell.
DigitsKept(a, b) ==
    \A column \in 0..(a.size - 1) : \A row \in 0..(a.size - 1) :
        get_cell(a, column, row).val # None
            => get_cell(b, column, row).val = get_cell(a, column, row).val

\* C11: a grid is a subset and a superset of itself; for grids of equal block
\* dimensions the empty grid is a subset of every grid, is_subset holds both
\* ways iff the grids are equal, is_superset is is_subset with the grids
\* exchanged, and is_subset holds exactly when every digit of the first grid
\* is in the same cell of the second; for grids of different block
\* dimensions both return InvalidDimensions.
C11_SubsetLaws ==
    compared.tag = "done" =>
        /\ compared.self_subset = [tag |-> "Ok", val |-> TRUE]
        /\ compared.self_superset = [tag |-> "Ok", val |-> TRUE]
        /\ IF /\ self_grid.block_width = other_grid.block_width
              /\ self_grid.block_height = other_grid.block_height
           THEN /\ compared.subset.tag = "Ok"
                /\ compared.reverse.tag = "Ok"
                /\ is_empty(self_grid) => compared.subset.val
                /\ (compared.subset.val /\ compared.reverse.val)
                       <=> self_grid = other_grid
                /\ compared.superset = compared.reverse
                /\ compared.subset.val <=> DigitsKept(self_grid, other_grid)
           ELSE /\ compared.subset.tag = "InvalidDimensions"
                /\ compared.superset.tag = "InvalidDimensions"
                /\ compared.reverse.tag = "InvalidDimensions"

\* C11 witness: a grid with a digit has been found a subset of another grid
\* that is not a subset of it.
C11_Witness ==
    /\ compared.tag = "done"
    /\ ~is_empty(self_grid)
    /\ compared.subset = [tag |-> "Ok", val |-> TRUE]
    /\ compared.reverse = [tag |-> "Ok", val |-> FALSE]

(***************************************************************************)
(* USizeSet (utilities.rs)                                                 *)
(*                                                                         *)
(* A u64 is the set of the positions (0 the lowest) of its one bits, so    *)
(* that all 64 bits of a word are kept.  A USizeSet is the record of its   *)
(* fields lower, upper, len and content, the Vec of its words.             *)
(***************************************************************************)
U64_BIT_SIZE == 64

\* The positions of the bits of a u64.
Bits == 0..(U64_BIT_SIZE - 1)

\* 0u64
Zero == {}

\* !a, a | b, a & b, a ^ b on u64
not(a) == Bits \ a
bitor(a, b) == a \cup b
bitand(a, b) == a \cap b
bitxor(a, b) == (a \ b) \cup (b \ a)

\* !a & b, the operands of the difference taken the other way round.
and_not_swapped(a, b) == bitand(not(a), b)

\* a & !b (the closure of difference_assign)
and_not(a, b) == bitand(a, not(b))

\* a >> n and 1u64 << n, for n below 64
shr(a, n) == {b - n : b \in {c \in a : c >= n}}
bit(n) == {n}

\* (1 << n) - 1 and u64::MAX >> (U64_BIT_SIZE - n), for n in 1..63: the n
\* lowest bits
low_bits(n) == 0..(n - 1)

\* The least and the greatest element of a set of numbers that is not empty.
Least(s) == CHOOSE n \in s : \A m \in s : n <= m
Greatest(s) == CHOOSE n \in s : \A m \in s : n >= m

\* u64::trailing_zeros, leading_zeros, count_ones
trailing_zeros(a) == IF a = Zero THEN U64_BIT_SIZE ELSE Least(a)
leading_zeros(a) == IF a = Zero THEN U64_BIT_SIZE ELSE U64_BIT_SIZE - 1 - Greatest(a)
count_ones(a) == Cardinality(a)

\* struct USizeSet
USizeSet(lower, upper, len, content) ==
    [lower |-> lower, upper |-> upper, len |-> len, content |-> content]

\* USizeSetResult<V>: Ok(val) or Err(tag), with the set the call leaves
SetOk(val, s) == [tag |-> "Ok", val |-> val, set |-> s]
SetErr(tag, s) == [tag |-> tag, val |-> FALSE, set |-> s]

\* USizeSet::new
set_new(lower, upper) ==
    IF lower > upper THEN SetErr("InvalidBounds", NoSet)
    ELSE LET required_words == (upper - lower + 64) \div 64 IN
         SetOk(TRUE, USizeSet(lower, upper, 0, [i \in 1..required_words |-> Zero]))

\* USizeSet::range
range(lower, upper) ==
    IF lower > upper THEN SetErr("InvalidBounds", NoSet)
    ELSE LET ones == upper - lower + 1
             ones_words == ones \div U64_BIT_SIZE
             remaining_ones == ones - ones_words * 64
             content == [i \in 1..ones_words |-> not(Zero)]
         IN SetOk(TRUE, USizeSet(lower, upper, ones,
                IF remaining_ones > 0
                THEN Append(content, low_bits(remaining_ones))
                ELSE content))

\* USizeSet::compute_index: the position of the word (Rust's) and the bit of
\* the mask
compute_index(s, number) ==
    IF number < s.lower \/ number > s.upper
    THEN [tag |-> "OutOfBounds", word_index |-> 0, mask |-> Zero]
    ELSE LET offset == number - s.lower IN
         [tag |-> "Ok", word_index |-> offset \div 64, mask |-> bit(offset % 64)]

\* The first position of a word that is not zero, or the number of words.
RECURSIVE first_nonzero(_, _)
first_nonzero(content, word) ==
    IF word >= Len(content) THEN Len(content)
    ELSE IF trailing_zeros(content[word + 1]) < U64_BIT_SIZE THEN word
    ELSE first_nonzero(content, word + 1)

\* The last position of a word that is not zero, or -1.
RECURSIVE last_nonzero(_, _)
last_nonzero(content, word) ==
    IF word < 0 THEN -1
    ELSE IF leading_zeros(content[word + 1]) < U64_BIT_SIZE THEN word
    ELSE last_nonzero(content, word - 1)

\* USizeSet::min (None is -1)
min(s) ==
    LET word == first_nonzero(s.content, 0) IN
    IF word = Len(s.content) THEN None
    ELSE s.lower + word * U64_BIT_SIZE + trailing_zeros(s.content[word + 1])

\* max that takes the highest bit of the first word that is not zero.
max_first_word(s) ==
    LET word == first_nonzero(s.content, 0) IN
    IF word = Len(s.content) THEN None
    ELSE s.lower + (word + 1) * U64_BIT_SIZE
            - leading_zeros(s.content[word + 1]) - 1

\* USizeSet::max (None is -1)
max(s) ==
    LET word == last_nonzero(s.content, Len(s.content) - 1) IN
    IF word = -1 THEN None
    ELSE s.lower + (word + 1) * U64_BIT_SIZE
            - leading_zeros(s.content[word + 1]) - 1

\* contains that takes the number modulo the words instead of returning
\* false outside the range.
contains_wrapping(s, number) ==
    LET offset == (number + Len(s.content) * U64_BIT_SIZE - s.lower)
                      % (Len(s.content) * U64_BIT_SIZE)
    IN bitand(s.content[(offset \div 64) + 1], bit(offset % 64)) # Zero

\* USizeSet::contains
contains(s, number) ==
    LET at == compute_index(s, number) IN
    IF at.tag = "Ok"
    THEN bitand(s.content[at.word_index + 1], at.mask) # Zero
    ELSE FALSE

\* insert that does not count the new member.
insert_uncounted(s, number) ==
    LET at == compute_index(s, number) IN
    IF at.tag # "Ok" THEN SetErr(at.tag, s)
    ELSE LET word == s.content[at.word_index + 1] IN
         IF bitand(word, at.mask) = Zero
         THEN SetOk(TRUE, [s EXCEPT !.content[at.word_index + 1] = bitor(word, at.mask)])
         ELSE SetOk(FALSE, s)

\* USizeSet::insert
insert(s, number) ==
    LET at == compute_index(s, number) IN
    IF at.tag # "Ok" THEN SetErr(at.tag, s)
    ELSE LET word == s.content[at.word_index + 1] IN
         IF bitand(word, at.mask) = Zero
         THEN SetOk(TRUE, [s EXCEPT !.len = s.len + 1,
                                    !.content[at.word_index + 1] = bitor(word, at.mask)])
         ELSE SetOk(FALSE, s)

\* remove that returns true for a number that was not a member, too.
remove_unreported(s, number) ==
    LET at == compute_index(s, number) IN
    IF at.tag # "Ok" THEN SetErr(at.tag, s)
    ELSE LET word == s.content[at.word_index + 1] IN
         IF bitand(word, at.mask) # Zero
         THEN SetOk(TRUE, [s EXCEPT !.len = s.len - 1,
                                    !.content[at.word_index + 1] = bitand(word, not(at.mask))])
         ELSE SetOk(TRUE, s)

\* USizeSet::remove
remove(s, number) ==
    LET at == compute_index(s, number) IN
    IF at.tag # "Ok" THEN SetErr(at.tag, s)
    ELSE LET word == s.content[at.word_index + 1] IN
         IF bitand(word, at.mask) # Zero
         THEN SetOk(TRUE, [s EXCEPT !.len = s.len - 1,
                                    !.content[at.word_index + 1] = bitand(word, not(at.mask))])
         ELSE SetOk(FALSE, s)

\* USizeSet::singleton
singleton(lower, upper, content) ==
    LET made == set_new(lower, upper) IN
    IF made.tag # "Ok" THEN made
    ELSE LET inserted == insert(made.set, content) IN
         IF inserted.tag # "Ok" THEN SetErr(inserted.tag, NoSet)
         ELSE SetOk(TRUE, inserted.set)

\* USizeSet::clear
clear(s) == [s EXCEPT !.len = 0, !.content = [i \in 1..Len(s.content) |-> Zero]]

\* USizeSet::count
RECURSIVE count_from(_, _)
count_from(content, i) ==
    IF i > Len(content) THEN 0
    ELSE count_ones(content[i]) + count_from(content, i + 1)

count(s) == count_from(s.content, 1)

\* The closure op of the _assign functions, a name here, called on two
\* words.
call_op(op, a, b) ==
    CASE op = "|" -> bitor(a, b)
      [] op = "&" -> bitand(a, b)
      [] op = "& !" -> and_not(a, b)
      [] op = "^" -> bitxor(a, b)

\* The words of self and other zipped (as many as the shorter Vec has) and
\* combined by op.
zip_with(content, other_content, op) ==
    [i \in 1..Len(content) |->
        IF i <= Len(other_content) THEN call_op(op, content[i], other_content[i])
        ELSE content[i]]

\* USizeSet::op_assign: val is whether a word changed
op_assign(s, other, op) ==
    IF s.lower # other.lower \/ s.upper # other.upper
    THEN SetErr("DifferentBounds", s)
    ELSE LET content == zip_with(s.content, other.content, op)
             after == [s EXCEPT !.content = content]
         IN SetOk(content # s.content, [after EXCEPT !.len = count(after)])

\* USizeSet::op: val is the new set, and self is left as it is
op_of(assigned, s) ==
    IF assigned.tag # "Ok" THEN SetErr(assigned.tag, s)
    ELSE SetOk(assigned.set, s)

\* USizeSet::union_assign, intersect_assign, difference_assign,
\* symmetric_difference_assign
union_assign(s, other) == op_assign(s, other, "|")
intersect_assign(s, other) == op_assign(s, other, "&")
difference_assign(s, other) == op_assign(s, other, "& !")
symmetric_difference_assign(s, other) == op_assign(s, other, "^")

\* USizeSet::union, intersect, difference, symmetric_difference
set_union(s, other) == op_of(union_assign(s, other), s)
intersect(s, other) == op_of(intersect_assign(s, other), s)
difference(s, other) == op_of(difference_assign(s, other), s)
symmetric_difference(s, other) == op_of(symmetric_difference_assign(s, other), s)

\* complement_assign that sets the bits of the last word instead of
\* flipping them.
complement_assign_set(s) ==
    LET len == Len(s.content)
        rem_bits == (s.upper - s.lower + 1) % U64_BIT_SIZE
        content == [i \in 1..len |->
                       IF i <= len - 1 THEN not(s.content[i])
                       ELSE IF rem_bits > 0
                       THEN bitor(s.content[i], low_bits(rem_bits))
                       ELSE s.content[i]]
        after == [s EXCEPT !.content = content]
    IN [after EXCEPT !.len = count(after)]

\* USizeSet::complement_assign: the words before the last are flipped, and
\* the last one only under the mask of the rem_bits lowest bits, when
\* rem_bits is not zero
complement_assign(s) ==
    LET len == Len(s.content)
        rem_bits == (s.upper - s.lower + 1) % U64_BIT_SIZE
        content == [i \in 1..len |->
                       IF i <= len - 1 THEN not(s.content[i])
                       ELSE IF rem_bits > 0
                       THEN bitxor(s.content[i], low_bits(rem_bits))
                       ELSE s.content[i]]
        after == [s EXCEPT !.content = content]
    IN [after EXCEPT !.len = count(after)]

\* USizeSet::complement
complement(s) == complement_assign(s)

\* The closures of is_disjoint and is_subset.
u64_disjoint(s, o) == bitand(s, o) = Zero
u64_subset(s, o) == bitand(s, o) = s

\* The closure u64_rel of the relations, a name here, called on two words.
call_rel(u64_rel, s, o) ==
    CASE u64_rel = "disjoint" -> u64_disjoint(s, o)
      [] u64_rel = "subset" -> u64_subset(s, o)

\* USizeSet::rel
rel(s, other, u64_rel) ==
    IF s.lower # other.lower \/ s.upper # other.upper
    THEN SetErr("DifferentBounds", s)
    ELSE SetOk(\A i \in 1..Len(s.content) :
                   i <= Len(other.content) =>
                       call_rel(u64_rel, s.content[i], other.content[i]), s)

\* USizeSet::is_disjoint, is_subset, is_proper_subset, is_superset,
\* is_proper_superset
set_is_disjoint(s, other) == rel(s, other, "disjoint")

\* is_subset that compares the words whatever the bounds are.
set_is_subset_unchecked(s, other) ==
    SetOk(\A i \in 1..Len(s.content) :
              i <= Len(other.content) => u64_subset(s.content[i], other.content[i]), s)

\* USizeSet::is_subset
set_is_subset(s, other) == rel(s, other, "subset")

set_is_proper_subset(s, other) ==
    LET sub == set_is_subset(s, other) IN
    IF sub.tag # "Ok" THEN sub
    ELSE SetOk(sub.val /\ s.len < other.len, s)

set_is_superset(s, other) == [set_is_subset(other, s) EXCEPT !.set = s]
set_is_proper_superset(s, other) == [set_is_proper_subset(other, s) EXCEPT !.set = s]

\* struct BitIterator
BitIterator(bit_index, value) == [bit_index |-> bit_index, value |-> value]

\* BitIterator::new
bit_iterator_new(value) == BitIterator(0, value)

\* BitIterator::progress
progress(b) ==
    LET diff == trailing_zeros(b.value) IN
    BitIterator(b.bit_index + diff, shr(b.value, diff))

\* BitIterator::next that does not clear the bit it yields.
bit_next_keep(b) ==
    LET moved == IF b.value # Zero /\ bitand(b.value, bit(0)) = Zero
                 THEN progress(b) ELSE b
    IN [item |-> IF moved.value = Zero THEN None ELSE moved.bit_index,
        iter |-> moved]

\* BitIterator::next: the item (None is -1) and the iterator afterwards
bit_next(b) ==
    LET moved == IF b.value # Zero /\ bitand(b.value, bit(0)) = Zero
                 THEN progress(b) ELSE b
    IN [item |-> IF moved.value = Zero THEN None ELSE moved.bit_index,
        iter |-> [moved EXCEPT !.value = bitand(@, not(bit(0)))]]

\* struct USizeSetIter: content is the words the slice iterator has not
\* given yet
USizeSetIter(offset, current, content) ==
    [offset |-> offset, current |-> current, content |-> content]

\* USizeSetIter::new
iter_new(s) ==
    USizeSetIter(s.lower,
                 IF Len(s.content) > 0 THEN bit_iterator_new(Head(s.content))
                 ELSE bit_iterator_new(Zero),
                 IF Len(s.content) > 0 THEN Tail(s.content) ELSE <<>>)

\* USizeSetIter::next: the item (None is -1) and the iterator afterwards
RECURSIVE iter_next(_)
iter_next(it) ==
    LET got_bit == bit_next(it.current) IN
    IF got_bit.item # None
    THEN [item |-> it.offset + got_bit.item,
          iter |-> [it EXCEPT !.current = got_bit.iter]]
    ELSE IF Len(it.content) > 0
    THEN iter_next(USizeSetIter(it.offset + U64_BIT_SIZE,
                                bit_iterator_new(Head(it.content)),
                                Tail(it.content)))
    ELSE [item |-> None, iter |-> [it EXCEPT !.current = got_bit.iter]]

(***************************************************************************)
(* The calls on a USizeSet: one set is made by new, range or singleton,    *)
(* and then the public functions are called on it in any order, with       *)
(* numbers in and around its range and with other sets of the same and of  *)
(* different bounds.  set_call is the last call, with the set before it,   *)
(* and set_ret what it returned, until the caller is done with them.       *)
(***************************************************************************)
MaxLower == 1
MaxWords == 2

Lowers == 0..MaxLower

\* The sizes of the ranges: below a word, a word, words, a word and a bit.
Sizes == {1, 3, (MaxWords - 1) * U64_BIT_SIZE + 1}
            \cup {k * U64_BIT_SIZE : k \in 1..MaxWords}

\* The bounds given to new, range and singleton; lower > upper among them.
BoundPairs == {<<lower, lower + size - 1>> : lower \in Lowers, size \in Sizes}
                \cup {<<lower, lower - 1>> : lower \in Lowers \ {0}}

\* The numbers given to a set of these bounds: the ends of its range and of
\* its first words, and the numbers next to its range.
Probes(lower, upper) ==
    {n \in {lower - 1, lower, lower + 1, lower + U64_BIT_SIZE - 1,
            lower + U64_BIT_SIZE, upper, upper + 1} : n >= 0}

InRange(s) == {n \in Probes(s.lower, s.upper) : n >= s.lower /\ n <= s.upper}

\* The other sets given to the functions of two sets: of the bounds of s,
\* empty, full, with one number or without one number; and of other bounds.
Operands(s) ==
    LET empty == set_new(s.lower, s.upper).set
        full == range(s.lower, s.upper).set
    IN {empty, full}
        \cup {insert(empty, n).set : n \in InRange(s)}
        \cup {remove(full, n).set : n \in InRange(s)}
        \cup {set_new(s.lower + 1, s.upper + 1).set, range(s.lower, s.upper + 1).set}
        \cup (IF s.lower < s.upper THEN {range(s.lower + 1, s.upper).set} ELSE {})

\* Result::unwrap
unwrap(outcome) ==
    IF outcome.tag = "Ok" THEN outcome
    ELSE [tag |-> "Panic", val |-> FALSE, set |-> outcome.set]

InitSet ==
    /\ GridIdle /\ ParseIdle /\ SearchIdle /\ UnionIdle /\ ReduceIdle /\ CompareIdle
    /\ SetIdle

SetCall(op, number, other) ==
    [op |-> op, number |-> number, other |-> other, before |-> set,
     again |-> FALSE, previous |-> <<>>]

\* A call returns outcome: its value, and the set it leaves.
Returns(op, number, other, outcome) ==
    /\ set_call' = SetCall(op, number, other)
    /\ set_ret' = [tag |-> outcome.tag, val |-> outcome.val]
    /\ set' = outcome.set
    /\ yielded' = <<>>
    /\ UNCHANGED iter
    /\ UNCHANGED setFrame

\* No set is made yet, and no call is being looked at.
Unmade == set = NoSet /\ set_call = NoSetCall

\* A set is there, no iterator borrows it, and no call is being looked at.
Live == set # NoSet /\ iter = NoIter /\ set_call = NoSetCall

SetNew ==
    /\ Unmade
    /\ \E bounds \in BoundPairs :
        Returns("new", None, [lower |-> bounds[1], upper |-> bounds[2]],
                set_new(bounds[1], bounds[2]))

SetRange ==
    /\ Unmade
    /\ \E bounds \in BoundPairs :
        Returns("range", None, [lower |-> bounds[1], upper |-> bounds[2]],
                range(bounds[1], bounds[2]))

SetSingleton ==
    /\ Unmade
    /\ \E bounds \in BoundPairs :
        \E content \in Probes(bounds[1], bounds[2]) :
            Returns("singleton", content, [lower |-> bounds[1], upper |-> bounds[2]],
                    singleton(bounds[1], bounds[2], content))

Contains ==
    /\ Live
    /\ \E number \in Probes(set.lower, set.upper) :
        Returns("contains", number, NoSet, SetOk(contains(set, number), set))

Insert ==
    /\ Live
    /\ \E number \in Probes(set.lower, set.upper) :
        Returns("insert", number, NoSet, insert(set, number))

Remove ==
    /\ Live
    /\ \E number \in Probes(set.lower, set.upper) :
        Returns("remove", number, NoSet, remove(set, number))

Clear == Live /\ Returns("clear", None, NoSet, SetOk(TRUE, clear(set)))

Min == Live /\ Returns("min", None, NoSet, SetOk(min(set), set))

Max == Live /\ Returns("max", None, NoSet, SetOk(max(set), set))

UnionAssign ==
    Live /\ \E other \in Operands(set) :
        Returns("union_assign", None, other, union_assign(set, other))

IntersectAssign ==
    Live /\ \E other \in Operands(set) :
        Returns("intersect_assign", None, other, intersect_assign(set, other))

DifferenceAssign ==
    Live /\ \E other \in Operands(set) :
        Returns("difference_assign", None, other, difference_assign(set, other))

SymmetricDifferenceAssign ==
    Live /\ \E other \in Operands(set) :
        Returns("symmetric_difference_assign", None, other,
                symmetric_difference_assign(set, other))

SetUnion ==
    Live /\ \E other \in Operands(set) :
        Returns("union", None, other, set_union(set, other))

Intersect ==
    Live /\ \E other \in Operands(set) :
        Returns("intersect", None, other, intersect(set, other))

Difference ==
    Live /\ \E other \in Operands(set) :
        Returns("difference", None, other, difference(set, other))

SymmetricDifference ==
    Live /\ \E other \in Operands(set) :
        Returns("symmetric_difference", None, other, symmetric_difference(set, other))

\* impl BitOr, BitAnd, Sub, BitXor for &USizeSet
BitOr ==
    Live /\ \E other \in Operands(set) :
        Returns("bitor", None, other, unwrap(set_union(set, other)))

BitAnd ==
    Live /\ \E other \in Operands(set) :
        Returns("bitand", None, other, unwrap(intersect(set, other)))

Sub ==
    Live /\ \E other \in Operands(set) :
        Returns("sub", None, other, unwrap(difference(set, other)))

BitXor ==
    Live /\ \E other \in Operands(set) :
        Returns("bitxor", None, other, unwrap(symmetric_difference(set, other)))

ComplementAssign ==
    Live /\ Returns("complement_assign", None, NoSet, SetOk(TRUE, complement_assign(set)))

Complement ==
    Live /\ Returns("complement", None, NoSet, SetOk(complement(set), set))

\* impl Not for &USizeSet
Not == Live /\ Returns("not", None, NoSet, SetOk(complement(set), set))

IsDisjoint ==
    Live /\ \E other \in Operands(set) :
        Returns("is_disjoint", None, other, set_is_disjoint(set, other))

IsSubset ==
    Live /\ \E other \in Operands(set) :
        Returns("is_subset", None, other, set_is_subset(set, other))

IsProperSubset ==
    Live /\ \E other \in Operands(set) :
        Returns("is_proper_subset", None, other, set_is_proper_subset(set, other))

IsSuperset ==
    Live /\ \E other \in Operands(set) :
        Returns("is_superset", None, other, set_is_superset(set, other))

IsProperSuperset ==
    Live /\ \E other \in Operands(set) :
        Returns("is_proper_superset", None, other, set_is_proper_superset(set, other))

\* USizeSet::iter: again when the last call was an iteration of this set,
\* which yielded previous
Iter ==
    /\ set # NoSet /\ iter = NoIter
    /\ set_call = NoSetCall \/ (set_call.op = "iter" /\ ~set_call.again)
    /\ iter' = iter_new(set)
    /\ yielded' = <<>>
    /\ set_call' = [SetCall("iter", None, NoSet) EXCEPT
                       !.again = (set_call.op = "iter"),
                       !.previous = IF set_call.op = "iter" THEN yielded ELSE <<>>]
    /\ set_ret' = [tag |-> "Ok", val |-> FALSE]
    /\ UNCHANGED set
    /\ UNCHANGED setFrame

\* USizeSetIter::next, until it returns None
IterNext ==
    /\ iter # NoIter
    /\ set_ret.tag # "None"
    /\ LET item == iter_next(iter) IN
        /\ iter' = item.iter
        /\ yielded' = IF item.item = None THEN yielded ELSE Append(yielded, item.item)
        /\ set_ret' = [tag |-> IF item.item = None THEN "None" ELSE "Some",
                       val |-> item.item]
    /\ UNCHANGED <<set, set_call>>
    /\ UNCHANGED setFrame

\* The iterator is dropped after it has ended.
IterDrop ==
    /\ iter # NoIter
    /\ set_ret.tag = "None"
    /\ iter' = NoIter
    /\ UNCHANGED <<set, set_call, set_ret, yielded>>
    /\ UNCHANGED setFrame

\* The caller is done with what the last call returned; a panic ends the
\* program.
Forget ==
    /\ set_call # NoSetCall
    /\ iter = NoIter
    /\ set_ret.tag # "Panic"
    /\ set_call' = NoSetCall
    /\ set_ret' = NoSetRet
    /\ yielded' = <<>>
    /\ UNCHANGED <<set, iter>>
    /\ UNCHANGED setFrame

NextSet ==
    \/ SetNew \/ SetRange \/ SetSingleton
    \/ Contains \/ Insert \/ Remove \/ Clear \/ Min \/ Max
    \/ UnionAssign \/ IntersectAssign \/ DifferenceAssign \/ SymmetricDifferenceAssign
    \/ SetUnion \/ Intersect \/ Difference \/ SymmetricDifference
    \/ BitOr \/ BitAnd \/ Sub \/ BitXor
    \/ ComplementAssign \/ Complement \/ Not
    \/ IsDisjoint \/ IsSubset \/ IsProperSubset \/ IsSuperset \/ IsProperSuperset
    \/ Iter \/ IterNext \/ IterDrop \/ Forget

SpecSet == InitSet /\ [][NextSet]_vars

\* The members of s: the numbers of its range that it contains.
Members(s) == {n \in s.lower..s.upper : contains(s, n)}

\* The bits of the words of s that are set, numbered through the words.
SetBits(s) ==
    UNION {{(i - 1) * U64_BIT_SIZE + b : b \in s.content[i]} : i \in 1..Len(s.content)}

\* The calls that return a set.
SetValued == {"union", "intersect", "difference", "symmetric_difference",
              "bitor", "bitand", "sub", "bitxor", "complement", "not"}

\* s keeps its representation: the bit at n - lower is set exactly for the
\* numbers n of the range that s contains, no bit beyond upper - lower is
\* set, and len is the number of the bits that are set.
Represented(s) ==
    LET bits == SetBits(s) IN
    /\ \A n \in s.lower..s.upper : contains(s, n) <=> (n - s.lower) \in bits
    /\ \A b \in bits : b <= s.upper - s.lower
    /\ s.len = Cardinality(bits)

\* C12: after any sequence of new, range, singleton, insert, remove, clear,
\* the operations of two sets, their _assign forms and complement, the set
\* (and every set those operations return) has the bit at n - lower set iff
\* n is a member, no bit beyond upper - lower set, and len equal to the
\* number of the bits that are set.
C12_RepresentationInvariant ==
    /\ set # NoSet => Represented(set)
    /\ (set_call.op \in SetValued /\ set_ret.tag = "Ok") => Represented(set_ret.val)

\* A set of two words that is neither empty nor full, after complement_assign.
C12_Witness ==
    /\ set_call.op = "complement_assign"
    /\ Len(set.content) > 1
    /\ set.len > 1
    /\ set.len < set.upper - set.lower

\* C13: complement (and complement_assign, which it calls) gives, for every
\* bounds lower <= upper, the set of the same bounds whose members are
\* exactly the numbers of the range that are not members of the operand,
\* with len their number: the complement of the full set is empty and the
\* complement of the empty set is full.
C13_ComplementExact ==
    /\ (set_call.op \in {"complement", "not"} /\ set_ret.tag = "Ok") =>
        /\ set_ret.val.lower = set.lower /\ set_ret.val.upper = set.upper
        /\ Members(set_ret.val) = (set.lower..set.upper) \ Members(set)
        /\ set_ret.val.len = Cardinality((set.lower..set.upper) \ Members(set))
    /\ set_call.op = "complement_assign" =>
        /\ set.lower = set_call.before.lower /\ set.upper = set_call.before.upper
        /\ Members(set) = (set.lower..set.upper) \ Members(set_call.before)
        /\ set.len = Cardinality((set.lower..set.upper) \ Members(set_call.before))

\* The calls of the operations of two sets: those that return the new set,
\* and those that change the receiver.
Returning == {"union", "intersect", "difference", "symmetric_difference",
              "bitor", "bitand", "sub", "bitxor"}
Assigning == {"union_assign", "intersect_assign", "difference_assign",
              "symmetric_difference_assign"}

\* The members the operation op of a and b has in set theory.
Combined(op, a, b) ==
    CASE op \in {"union", "union_assign", "bitor"} -> a \cup b
      [] op \in {"intersect", "intersect_assign", "bitand"} -> a \cap b
      [] op \in {"difference", "difference_assign", "sub"} -> a \ b
      [] OTHER -> (a \ b) \cup (b \ a)

\* C14: for sets A and B of equal bounds, union, intersect, difference and
\* symmetric_difference, the operators |, &, -, ^ and the _assign forms
\* succeed and give the set of the same bounds whose members are those of
\* the operation of set theory, with len their number, so that
\* |A u B| = |A| + |B| - |A n B|; the forms that return a set leave the
\* receiver as it was, and the _assign methods return true iff the members
\* of the receiver changed.
C14_SetAlgebra ==
    (/\ set_call.op \in Returning \cup Assigning
     /\ set_call.other.lower = set_call.before.lower
     /\ set_call.other.upper = set_call.before.upper) =>
    LET a == set_call.before
        b == set_call.other
        r == IF set_call.op \in Returning THEN set_ret.val ELSE set
        expected == Combined(set_call.op, Members(a), Members(b))
    IN /\ set_ret.tag = "Ok"
       /\ r.lower = a.lower /\ r.upper = a.upper
       /\ Members(r) = expected
       /\ r.len = Cardinality(expected)
       /\ set_call.op \in Returning => set = a
       /\ set_call.op \in Assigning => set_ret.val = (Members(set) # Members(a))
       /\ set_call.op \in {"union", "union_assign", "bitor"} =>
            r.len = a.len + b.len - intersect(a, b).val.len

\* The symmetric difference of two sets of two words that overlap, neither
\* inside the other.
C14_Witness ==
    /\ set_call.op = "symmetric_difference"
    /\ set_ret.tag = "Ok"
    /\ Len(set.content) > 1
    /\ Members(set) \cap Members(set_call.other) # {}
    /\ Members(set) \ Members(set_call.other) # {}
    /\ Members(set_call.other) \ Members(set) # {}

\* C15: complement is involutive: for the set A, of any bounds,
\* A.complement().complement() is A, with the same bounds, members and len.
C15_ComplementInvolutive ==
    (set_call.op \in {"complement", "not"} /\ set_ret.tag = "Ok") =>
        LET twice == complement(set_ret.val) IN
        /\ twice = set
        /\ twice.lower = set.lower /\ twice.upper = set.upper
        /\ Members(twice) = Members(set)
        /\ twice.len = set.len

\* The complement of a set of a word and a bit that is neither empty nor
\* full has been taken, and it is another set.
C15_Witness ==
    /\ set_call.op = "complement"
    /\ set_ret.tag = "Ok"
    /\ Len(set.content) > 1
    /\ (set.upper - set.lower + 1) % U64_BIT_SIZE # 0
    /\ set.len > 0
    /\ set_ret.val.len > 0
    /\ set_ret.val # set

\* The methods of two sets that return a Result, and those of them that
\* change the receiver.
Checked == {"union", "intersect", "difference", "symmetric_difference",
            "union_assign", "intersect_assign", "difference_assign",
            "symmetric_difference_assign",
            "is_disjoint", "is_subset", "is_proper_subset", "is_superset",
            "is_proper_superset"}

\* C16: union, intersect, difference, symmetric_difference, their _assign
\* forms, is_disjoint, is_subset, is_proper_subset, is_superset and
\* is_proper_superset return Err(DifferentBounds) when the lower or the
\* upper bounds of the two sets differ (and only then), and the receiver is
\* then as it was before the call.
C16_DifferentBounds ==
    set_call.op \in Checked =>
        LET differ == \/ set_call.other.lower # set_call.before.lower
                      \/ set_call.other.upper # set_call.before.upper
        IN /\ differ => (set_ret.tag = "DifferentBounds" /\ set = set_call.before)
           /\ ~differ => set_ret.tag = "Ok"

\* union_assign with a set whose upper bound only differs, on a set that is
\* not empty, and whose members the union would have changed.
C16_Witness ==
    /\ set_call.op = "union_assign"
    /\ set_call.other.lower = set.lower
    /\ set_call.other.upper # set.upper
    /\ set_call.other.len > set.len
    /\ set.len > 0
    /\ set_ret.tag = "DifferentBounds"

\* C17: insert(n) and remove(n) return Err(OutOfBounds) when n < lower or
\* n > upper and leave the set as it was; for n in the range they return
\* true iff the membership of n changed (insert of a number that was not a
\* member, remove of a member), contains(n) is then true after insert and
\* false after remove, and len has changed by 1 when true is returned and
\* by 0 when false is returned.
C17_InsertRemove ==
    set_call.op \in {"insert", "remove"} =>
        LET n == set_call.number
            before == set_call.before
            inserting == set_call.op = "insert"
        IN IF n < before.lower \/ n > before.upper
           THEN set_ret.tag = "OutOfBounds" /\ set = before
           ELSE /\ set_ret.tag = "Ok"
                /\ set_ret.val = (contains(before, n) # inserting)
                /\ contains(set, n) = inserting
                /\ set.len = before.len
                        + (IF ~set_ret.val THEN 0 ELSE IF inserting THEN 1 ELSE -1)

\* A number of the second word has been removed from a set that has other
\* members.
C17_Witness ==
    /\ set_call.op = "remove"
    /\ set_call.number >= set.lower + U64_BIT_SIZE
    /\ set_ret = [tag |-> "Ok", val |-> TRUE]
    /\ set.len > 0

\* C18: contains(n) fails with OutOfBounds when n is outside [lower, upper],
\* as insert and remove do.
C18_ContainsFails ==
    (/\ set_call.op = "contains"
     /\ (set_call.number < set.lower \/ set_call.number > set.upper)) =>
        set_ret.tag = "OutOfBounds"

\* C18, as the source has it: contains(n) never fails and leaves the set as
\* it is; it returns false when n is outside [lower, upper], and for n in the
\* range whether the bit of n is set.
C18_ContainsFalseOutside ==
    set_call.op = "contains" =>
        /\ set_ret.tag = "Ok"
        /\ set = set_call.before
        /\ IF set_call.number < set.lower \/ set_call.number > set.upper
           THEN set_ret.val = FALSE
           ELSE set_ret.val = ((set_call.number - set.lower) \in SetBits(set))

\* contains of the number after upper on a set that has upper, and of more
\* than one word.
C18_Witness ==
    /\ set_call.op = "contains"
    /\ set_call.number = set.upper + 1
    /\ Len(set.content) > 1
    /\ contains(set, set.upper)
    /\ set_ret = [tag |-> "Ok", val |-> FALSE]

\* C19: min() and max() return None iff the set is empty, and otherwise the
\* smallest and the largest member, for every set the public operations
\* reach, of one word or more and of any lower bound.
C19_MinMax ==
    set_call.op \in {"min", "max"} =>
        LET members == Members(set) IN
        /\ set_ret.tag = "Ok"
        /\ (set_ret.val = None) <=> (members = {})
        /\ (set_ret.val = None) <=> (set.len = 0)
        /\ members # {} =>
            set_ret.val = IF set_call.op = "min" THEN Least(members)
                          ELSE Greatest(members)

\* max of a set with members in its first and in its second word and a
\* lower bound that is not zero.
C19_Witness ==
    /\ set_call.op = "max"
    /\ set.lower > 0
    /\ set_ret.val >= set.lower + U64_BIT_SIZE
    /\ set_ret.val < set.upper
    /\ contains(set, set.lower)

\* The numbers of seq are strictly ascending.
Ascending(seq) == \A i \in 1..(Len(seq) - 1) : seq[i] < seq[i + 1]

\* C20: iter() yields every member exactly once, in strictly ascending
\* order, and then ends: what it has yielded when next returns None has
\* length len and holds exactly the members, and iter() called again on the
\* unchanged set yields the same sequence.
C20_Iteration ==
    set_call.op = "iter" =>
        /\ set = set_call.before
        /\ Ascending(yielded)
        /\ set_ret.tag = "Some" => yielded[Len(yielded)] = set_ret.val
        /\ set_ret.tag = "None" =>
            /\ Len(yielded) = set.len
            /\ {yielded[i] : i \in 1..Len(yielded)} = Members(set)
            /\ set_call.again => yielded = set_call.previous

\* The second iteration of a set with a lower bound that is not zero and
\* members in both of its words has ended.
C20_Witness ==
    /\ set_call.op = "iter"
    /\ set_call.again
    /\ set_ret.tag = "None"
    /\ set.lower > 0
    /\ Len(yielded) > 2
    /\ yielded[1] < set.lower + U64_BIT_SIZE
    /\ yielded[Len(yielded)] >= set.lower + U64_BIT_SIZE

(***************************************************************************)
(* Early termination of the solver                                         *)
(***************************************************************************)
\* The completions a Solution stands for, two for Ambiguous.
Known(solution) ==
    IF solution.tag = "Unique" THEN 1 ELSE IF solution.tag = "Ambiguous" THEN 2 ELSE 0

\* The completions reached so far in the running solve: those the frames
\* have accumulated and the one being returned.
RECURSIVE KnownIn(_)
KnownIn(frames) ==
    IF frames = <<>> THEN 0
    ELSE Known(frames[Len(frames)].solution)
            + KnownIn(SubSeq(frames, 1, Len(frames) - 1))

KnownCompletions == KnownIn(stack) + Known(returned)

\* The step sets a digit (SolveRecPlace), or reaches the base case
\* row == size (SolveRecLastCell).
PlacesDigit == pc = "solve" /\ count_clues(clone'.grid) > count_clues(clone.grid)
ReachesBaseCase ==
    /\ pc = "solve" /\ stack # <<>>
    /\ Top.at = "enter" /\ Top.row = clone.grid.size
    /\ stack' = Pop

\* C21: within one solve, once two distinct completions have been reached
\* (the base case has been hit twice) no further digit is placed, and the
\* base case is not reached a third time.
C21_StopsAfterTwo ==
    [][KnownCompletions >= 2 => ~PlacesDigit /\ ~ReachesBaseCase]_vars

\* C21, as the source has it: a frame never goes on with an Ambiguous
\* solution, it returns it at once; and from the moment a frame returns
\* Ambiguous no digit is placed and the base case is not reached any more,
\* every frame above returns Ambiguous in its turn, and so does solve.
\* (A frame that holds one completion and receives nothing from a branch
\* goes on with its remaining digits although a frame above it holds
\* another completion.)
C21_StopsOnAmbiguous ==
    /\ [](\A i \in 1..Len(stack) : stack[i].solution # Ambiguous)
    /\ [][(pc = "solve" /\ returned = Ambiguous) =>
            /\ ~PlacesDigit /\ ~ReachesBaseCase
            /\ returned' = Ambiguous
            /\ Len(stack') < Len(stack) \/ (stack = <<>> /\ result' = Ambiguous)]_vars

\* Ambiguous is being returned to a frame that has not tried all its digits:
\* its second completion came from its first digit.
C21_Witness ==
    /\ pc = "solve"
    /\ returned = Ambiguous
    /\ Len(stack) > 1
    /\ Top.at = "placed"
    /\ Top.number < clone.grid.size

(* The sweep of reduce_with_priority *)
\* The positions of the candidate in the sorted list.
PositionsOf(candidate) ==
    {k \in 1..Len(reductions) : reductions[k].reduction = candidate}

\* The candidate the for loop is at.
Current == reductions[applied + 1].reduction

\* C22: the sorted list holds one RemoveDigit for each cell and one
\* ReduceConstraint for each entry of list_reductions on the full grid, in
\* non-decreasing order of score; the loop takes the candidates one after
\* the other, each once, with at most one call of the solver, never goes
\* back, and has taken all of them when reduce returns.
C22_OneShotSweep ==
    /\ [](pc \in {"sweep", "done"} =>
            LET size == given.grid.size
                tokens == list_reductions(given.constraint, given.grid)
            IN /\ Len(reductions) = size * size + Len(tokens)
               /\ \A column, row \in 0..(size - 1) :
                     Cardinality(PositionsOf(RemoveDigit(column, row))) = 1
               /\ \A i \in 1..Len(tokens) :
                     Cardinality(PositionsOf(ReduceConstraint(tokens[i]))) = 1
               /\ \A k \in 1..(Len(reductions) - 1) :
                     reductions[k].score <= reductions[k + 1].score
               /\ applied \in 0..Len(reductions)
               /\ pc = "done" => applied = Len(reductions))
    /\ [][pc = "sweep" =>
            /\ reductions' = reductions
            /\ \/ /\ applied < Len(reductions)
                  /\ applied' = applied + 1
                  /\ pc' = "sweep"
                  /\ LET res == apply(Current, sudoku, solution_grid) IN
                        /\ res.solves <= 1
                        /\ sudoku' = res.sudoku
               \/ /\ applied = Len(reductions)
                  /\ applied' = applied
                  /\ pc' = "done"
                  /\ sudoku' = sudoku]_vars

\* C22 witness: reduce has returned from a sweep of six candidates (four
\* cells and two cages) that were not in the order of their scores before
\* the sort, and at least one of them was rejected.
C22_Witness ==
    /\ pc = "done"
    /\ Len(reductions) = 6
    /\ applied = 6
    /\ reductions[1].score < reductions[6].score
    /\ reductions[1].reduction.kind = "ReduceConstraint"
    /\ reductions[6].reduction.kind = "RemoveDigit"
    /\ count_clues(sudoku.grid) > 0

\* The Sudoku with the reduction done and not yet judged by the solver: the
\* cell without its digit, or the constraint relaxed.
Tried(r, s, solution) ==
    IF r.kind = "RemoveDigit"
    THEN [s EXCEPT !.grid = clear_cell(s.grid, r.column, r.row).grid]
    ELSE [s EXCEPT !.constraint = reduce(s.constraint, solution, r.reduction).constraint]

\* The solver rejects the reduction.
Rejected(r, s, solution) == solve(Tried(r, s, solution)).tag # "Unique"

\* C23: a reduction the solver rejects leaves the Sudoku, cells and
\* constraint, as it was before the apply; a reduction the solver accepts is
\* kept, and changes nothing but the cell of a RemoveDigit (the constraint
\* and the other cells stay) or the constraint of a ReduceConstraint (the
\* grid stays).  The full solution grid is not touched by either.
C23_RejectedUndone ==
    [][(pc = "sweep" /\ applied < Len(reductions)) =>
            /\ solution_grid' = solution_grid
            /\ IF Rejected(Current, sudoku, solution_grid)
               THEN sudoku' = sudoku
               ELSE /\ sudoku' = Tried(Current, sudoku, solution_grid)
                    /\ Current.kind = "ReduceConstraint" => sudoku'.grid = sudoku.grid
                    /\ Current.kind = "RemoveDigit" =>
                          /\ sudoku'.constraint = sudoku.constraint
                          /\ \A column, row \in 0..(sudoku.grid.size - 1) :
                                \/ column = Current.column /\ row = Current.row
                                \/ get_cell(sudoku'.grid, column, row)
                                      = get_cell(sudoku.grid, column, row)]_vars

\* C23 witness: the candidate applied last was the removal of a cage that
\* the solver rejects, and the cage is in the constraint as before; and an
\* earlier candidate was kept.
C23_Witness ==
    /\ pc = "sweep"
    /\ applied >= 1
    /\ LET last == reductions[applied].reduction IN
          /\ last.kind = "ReduceConstraint"
          /\ reduce(sudoku.constraint, solution_grid, last.reduction).tag = "Ok"
          /\ Rejected(last, sudoku, solution_grid)
    /\ sudoku.constraint = given.constraint
    /\ sudoku.grid # given.grid

\* The constraint's reduce fails for the candidate the loop is at.
ReduceFails ==
    /\ pc = "sweep"
    /\ applied < Len(reductions)
    /\ Current.kind = "ReduceConstraint"
    /\ reduce(sudoku.constraint, solution_grid, Current.reduction).tag # "Ok"

\* C24: when the constraint's reduce returns Err(InvalidReduction) for a
\* candidate, the sweep does not go on to the next candidate as if nothing
\* had happened: it stops, or a result that holds the error is recorded for
\* the caller of reduce_with_priority.
C24_ReduceErrorReported ==
    [][ReduceFails => pc' # "sweep" \/ result' # NoReturn]_vars

(***************************************************************************)
(* The solver, the generator and the reducer side by side (specification   *)
(* SpecCalls): the caller holds any Sudoku the three are given above and    *)
(* calls solve or fill on it, or reduce when it is one of the full valid    *)
(* grids the Reducer is given.                                              *)
(***************************************************************************)
InitCalls == InitSolve \/ InitFill \/ InitReduce

\* Reducer::reduce is called on the full valid grids of InitReduce only.
ReduceOnFull ==
    /\ pc \in {"ready", "sweep"}
    /\ is_full(given.grid)
    /\ given.constraint \in ReducedUnder(given.grid)
    /\ check(given.constraint, given.grid)
    /\ NextReduce

NextCalls ==
    \/ NextSolve
    \/ NextFill
    \/ ReduceOnFull

SpecCalls == InitCalls /\ [][NextCalls]_vars

\* The digit a frame has placed: the loop variable of solve_rec, or the
\* entry of the shuffled order fill_rec is at.
PlacedDigit(frame) ==
    IF pc = "solve" THEN frame.number ELSE frame.order[frame.number]

\* C25: in every frame of a running solve or fill the column is below size
\* and the row is below size (the frame of the base case, which makes no
\* grid call, stands at column 0 of row size), and a placed digit is in
\* 1..=size; no unwrap of solve, fill or the sweep fails: the only panic is
\* the one of the sort, before the sweep has begun.
C25_CallsInBounds ==
    /\ [](pc \in {"solve", "fill"} =>
            LET size == sudoku.grid.size IN
            \A i \in 1..Len(stack) :
               /\ stack[i].column \in 0..(size - 1)
               /\ \/ stack[i].row \in 0..(size - 1)
                  \/ /\ stack[i].at = "enter"
                     /\ stack[i].row = size
                     /\ stack[i].column = 0
                     /\ i = Len(stack)
               /\ stack[i].at = "placed" => PlacedDigit(stack[i]) \in 1..size)
    /\ [][pc' = "panic" => pc = "ready"]_vars

\* C25 witness: the recursion stands in the last cell of a grid of four
\* cells with a digit placed there, and every other frame has placed one.
C25_Witness ==
    /\ pc \in {"solve", "fill"}
    /\ Len(stack) = 5
    /\ \A i \in 1..4 : stack[i].at = "placed"
    /\ stack[4].column = 1 /\ stack[4].row = 1
    /\ PlacedDigit(stack[4]) = 2

\* The rules implemented through IrreducibleConstraint.
Irreducible(c) == c.kind \in {"Default", "Diagonals"}

\* C26: for a rule implemented through IrreducibleConstraint and the grids
\* of the sweep (the full one and the one reduced so far), list_reductions
\* is empty and reduce fails with InvalidReduction and leaves the rule as it
\* is; the sorted candidates are the size * size digit removals and nothing
\* else.
C26_IrreducibleHasNoReductions ==
    (pc \in {"sweep", "done"} /\ Irreducible(given.constraint)) =>
        /\ \A g \in {given.grid, sudoku.grid, solution_grid} :
              /\ list_reductions(sudoku.constraint, g) = <<>>
              /\ reduce(sudoku.constraint, g, Unit).tag = "InvalidReduction"
              /\ reduce(sudoku.constraint, g, Unit).constraint = given.constraint
        /\ Len(reductions) = given.grid.size * given.grid.size
        /\ \A k \in 1..Len(reductions) : reductions[k].reduction.kind = "RemoveDigit"

\* C26 witness: the sweep over the four cells of a grid under the
\* row/column/box rule has removed digits and has returned.
C26_Witness ==
    /\ pc = "done"
    /\ given.constraint = DefaultConstraint
    /\ given.grid.size = 2
    /\ applied = 4
    /\ sudoku.grid # given.grid

(* The solver on consistent puzzles *)
\* solve_rec with the digits of its for loop taken in the given order
\* instead of 1..=size; solve_loop_in is the loop from the given position on.
RECURSIVE solve_rec_in(_, _, _, _)
RECURSIVE solve_loop_in(_, _, _, _, _, _)
solve_rec_in(s, column, row, order) ==
    LET size == s.grid.size
        cell == get_cell(s.grid, column, row)
    IN
    IF row = size THEN [solution |-> Unique(s.grid), sudoku |-> s]
    ELSE IF cell.tag # "Ok" THEN [solution |-> Panicked, sudoku |-> s]
    ELSE IF cell.val # None
         THEN solve_rec_in(s, next_column(column, size),
                           next_row(column, row, size), order)
         ELSE solve_loop_in(s, column, row, order, 1, Impossible)

solve_loop_in(s, column, row, order, position, solution) ==
    LET size == s.grid.size
        number == order[position]
        valid == is_valid_number(s, column, row, number)
        placed == set_cell(s.grid, column, row, number)
        next == solve_rec_in([s EXCEPT !.grid = placed.grid],
                             next_column(column, size),
                             next_row(column, row, size), order)
        cleared == clear_cell(next.sudoku.grid, column, row)
        after == [next.sudoku EXCEPT !.grid = cleared.grid]
        both == union(solution, next.solution)
    IN
    IF position > Len(order) THEN [solution |-> solution, sudoku |-> s]
    ELSE IF valid.tag # "Ok" THEN [solution |-> Panicked, sudoku |-> s]
    ELSE IF ~valid.val
    THEN solve_loop_in(s, column, row, order, position + 1, solution)
    ELSE IF placed.tag # "Ok" THEN [solution |-> Panicked, sudoku |-> s]
    ELSE IF next.solution = Panicked THEN next
    ELSE IF cleared.tag # "Ok" THEN [solution |-> Panicked, sudoku |-> next.sudoku]
    ELSE IF both = Ambiguous THEN [solution |-> both, sudoku |-> after]
    ELSE solve_loop_in(after, column, row, order, position + 1, both)

\* The orders the digits 1..=size can be tried in.
Orders(size) ==
    {order \in [1..size -> 1..size] :
        \A i, j \in 1..size : order[i] = order[j] => i = j}

\* The full grids that Sudoku::is_valid_solution accepts for the puzzle.
ValidSolutions(puzzle) ==
    {g \in FullGridsLike(puzzle.grid) :
        is_valid_solution(puzzle, g) = [tag |-> "Ok", val |-> TRUE]}

\* C27: for a puzzle under the row/column/box rule whose clues pass
\* is_valid, solve returns Impossible iff is_valid_solution accepts no full
\* grid, Unique(g) iff it accepts g and no other, and Ambiguous iff it
\* accepts two or more; and the solver that tries the digits in any other
\* order returns the same.
C27_SolverCorrect ==
    (pc = "done" /\ given.constraint = DefaultConstraint /\ is_valid(given)) =>
        LET valid == ValidSolutions(given) IN
        /\ result = Impossible <=> valid = {}
        /\ result = Ambiguous <=> Cardinality(valid) >= 2
        /\ \A g \in FullGridsLike(given.grid) : result = Unique(g) <=> valid = {g}
        /\ result.tag \in {"Impossible", "Unique", "Ambiguous"}
        /\ \A order \in Orders(given.grid.size) :
              solve_rec_in(given, 0, 0, order).solution = result

\* C27 witness: the solver has returned the one completion of a grid of
\* four cells with one clue under the row/column/box rule.
C27_Witness ==
    /\ pc = "done"
    /\ given.constraint = DefaultConstraint
    /\ is_valid(given)
    /\ count_clues(given.grid) = 1
    /\ result.tag = "Unique"
    /\ result # Unique(given.grid)

(* The reduced puzzle *)
\* C28: when reduce has returned, every cell of the puzzle is empty or
\* holds the digit the full grid had there, and the solver returns Unique
\* of the full grid for the puzzle.
C28_ReducedIsSubsetOfSolution ==
    pc = "done" =>
        /\ \A column, row \in 0..(given.grid.size - 1) :
              get_cell(sudoku.grid, column, row).val
                  \in {None, get_cell(given.grid, column, row).val}
        /\ is_subset(sudoku.grid, given.grid) = [tag |-> "Ok", val |-> TRUE]
        /\ solve(sudoku) = Unique(given.grid)

\* C28 witness: reduce has returned a puzzle with one clue left of a grid
\* of four cells, whose killer rule has lost a cage.
C28_Witness ==
    /\ pc = "done"
    /\ given.grid.size = 2
    /\ count_clues(sudoku.grid) = 1
    /\ sudoku.constraint # given.constraint

\* The clue at the cell is still in the reduced puzzle.
Remains(column, row) == get_cell(sudoku.grid, column, row).val # None

\* C29: when reduce has returned, the solver returns Ambiguous for the
\* puzzle without any one of its remaining clues.
C29_LocallyMinimal ==
    pc = "done" =>
        \A column, row \in 0..(given.grid.size - 1) :
            Remains(column, row) =>
                solve([sudoku EXCEPT
                    !.grid = clear_cell(sudoku.grid, column, row).grid]) = Ambiguous

\* C29 witness: reduce has returned a puzzle in which a clue remains whose
\* removal was rejected before the removal of another digit was accepted.
C29_Witness ==
    /\ pc = "done"
    /\ \E i, j \in 1..Len(reductions) :
          LET early == reductions[i].reduction
              late == reductions[j].reduction
          IN /\ i < j
             /\ early.kind = "RemoveDigit" /\ Remains(early.column, early.row)
             /\ late.kind = "RemoveDigit" /\ ~Remains(late.column, late.row)

(* Completeness of fill *)
\* C30: when the pre-filled cells pass the constraint's check, fill returns
\* Ok if the Sudoku has a valid completion and
\* Err(UnsatisfiableConstraint) if it has none, whatever the shuffles give;
\* and when it returns Ok the grid before the call is a subset of the grid
\* after it, which is one of the valid completions.
C30_FillComplete ==
    (pc = "done" /\ is_valid(given)) =>
        LET completions == Completions(given) IN
        /\ result \in {FillOk, UnsatisfiableConstraint}
        /\ result = FillOk <=> completions # {}
        /\ result = FillOk =>
              /\ is_subset(given.grid, sudoku.grid) = [tag |-> "Ok", val |-> TRUE]
              /\ sudoku.grid \in completions
              /\ sudoku.constraint = given.constraint

\* C30 witness: fill has returned Ok on a grid of four cells with one
\* pre-filled cell and valid clues; the first cell was empty and holds the
\* digit 2.
C30_Witness ==
    /\ pc = "done"
    /\ result = FillOk
    /\ given.grid.size = 2
    /\ count_clues(given.grid) = 1
    /\ is_valid(given)
    /\ given.grid # sudoku.grid
    /\ get_cell(given.grid, 0, 0).val = None
    /\ get_cell(sudoku.grid, 0, 0).val = 2

=============================================================================
